---------------------------- MODULE Spec2Model ----------------------------
(***************************************************************************)
(* A state-machine model of dissect.volume's RAID layer:                   *)
(*   - the stream backends of dissect/volume/raid/stream.py (LINEAR,       *)
(*     RAID0 strip zones, RAID4/5/6 stripe translation, RAID10) driven     *)
(*     through VirtualDisk.open() of dissect/volume/raid/raid.py;          *)
(*   - the metadata aggregators MD(...) of dissect/volume/md/md.py and     *)
(*     DDF(...) of dissect/volume/ddf/ddf.py.                              *)
(*                                                                         *)
(* Bytes are not modelled by value: the byte stored at position p of the   *)
(* file of disk d is the pair <<d, p>>, except for the members of an       *)
(* in-sync RAID10 near set, whose mirrored chunks carry equal contents     *)
(* (DiskByte).  A Python exception is modelled as a status string.         *)
(***************************************************************************)
EXTENDS Integers, Sequences, FiniteSets, TLC

VARIABLES
    vd,        \* the VirtualDisk under test (raid.py VirtualDisk fields)
    stream,    \* what VirtualDisk.open() returned, or the exception it raised
    res,       \* the outcome of the last _read / _get_stripe_read_info call
    family,    \* the aggregator entry point called: "MD", "DDF", or "none"
    fhs,       \* the physical disks supplied to the aggregator, in order
    raid,      \* what the aggregator constructed, or the exception it raised
    ddfConv,   \* a call of ddf.py _convert_raid_layout: its arguments and outcome
    thinDev,   \* a dm-thin pool with one ThinDevice and the last call made on it
    lvmLv,     \* an LVM2 logical volume, its cached pool and the last call on it
    diskObj,   \* a Disk(fh) construction: the stream, the schemes tried, the outcome
    mdProbe,   \* a call of md.py find_super_block: the stream and the outcome
    vinum      \* a call into the vinum package: its input, position and outcome

streamVars == <<vd, stream, res>>
aggVars    == <<family, fhs, raid>>
raidVars   == <<vd, stream, res, family, fhs, raid>>
vars       == <<vd, stream, res, family, fhs, raid, ddfConv, thinDev, lvmLv, diskObj, mdProbe, vinum>>

\* A component no call has been made on.
Unused == [op |-> "unused"]

-----------------------------------------------------------------------------
(* Bounds of the model.                                                    *)

MaxRaidDisks == 4      \* raid_disks of a modelled set ranges over 2..MaxRaidDisks
MaxReadLen   == 5      \* _read lengths range over 1..MaxReadLen
MaxOffset    == 9      \* logical offsets of _read range over 0..MaxOffset
MaxInfoOffset == 47    \* offsets of _get_stripe_read_info range over 0..MaxInfoOffset
MaxSupplied  == 3      \* at most this many disks are handed to MD(...) / DDF(...)
DataOffset   == 1      \* data offset of every member (bytes; sectors in a superblock)

StripeSizes  == {2, 4} \* stripe_size values (bytes) of the stream model
Stripes      == 3      \* a RAID4/5/6/10 member holds this many stripes

-----------------------------------------------------------------------------
(* Level and Layout enums, raid/stream.py.                                 *)

LINEAR == -1
RAID0  == 0
RAID1  == 1
RAID3  == 3
RAID4  == 4
RAID5  == 5
RAID6  == 6
RAID10 == 10

LEFT_ASYMMETRIC       == 0
RIGHT_ASYMMETRIC      == 1
LEFT_SYMMETRIC        == 2
RIGHT_SYMMETRIC       == 3
PARITY_0              == 4
PARITY_N              == 5
ROTATING_ZERO_RESTART == 8
ROTATING_N_RESTART    == 9
ROTATING_N_CONTINUE   == 10
LEFT_ASYMMETRIC_6     == 16
RIGHT_ASYMMETRIC_6    == 17
LEFT_SYMMETRIC_6      == 18
RIGHT_SYMMETRIC_6     == 19
PARITY_0_6            == 20

\* Python's None where the code leaves pd_idx / qd_idx unset.
None == -1

-----------------------------------------------------------------------------
(* Generic helpers.                                                        *)

Min(a, b) == IF a < b THEN a ELSE b

\* The keys of a dict after dict(sorted(d.items())): ascending.
RECURSIVE SortedKeys(_)
SortedKeys(S) ==
    IF S = {} THEN <<>>
    ELSE LET m == CHOOSE x \in S : \A y \in S : x <= y
         IN  <<m>> \o SortedKeys(S \ {m})

\* fh.seek(pos); fh.read(n) on the file of disk d, whose length is fsize:
\* the bytes at pos .. pos+n-1 that exist.
FhRead(d, fsize, pos, n) ==
    [i \in 1..(IF pos >= fsize THEN 0 ELSE Min(n, fsize - pos)) |-> <<d, pos + i - 1>>]

-----------------------------------------------------------------------------
(* RAID456Stream._get_stripe_read_info, raid/stream.py 201-359.            *)
(* A result is [err, stripe, offset_in_stripe, dd_idx, pd_idx, qd_idx];    *)
(* err is "none" or the exception raised.                                  *)

StripeInfo(stripe, ois, dd, pd, qd, ddf_layout) ==
    [err              |-> IF ddf_layout THEN "NotImplementedError" ELSE "none",
     stripe           |-> stripe,
     offset_in_stripe |-> ois,
     dd_idx           |-> dd,
     pd_idx           |-> pd,
     qd_idx           |-> qd]

StripeError(e, stripe, ois) ==
    [err |-> e, stripe |-> stripe, offset_in_stripe |-> ois,
     dd_idx |-> None, pd_idx |-> None, qd_idx |-> None]

\* The level == 5 branch with LEFT_* and RIGHT_* parity positions exchanged.
Raid5InfoSwapped(algorithm, stripe, ois, dd_idx, raid_disks, data_disks) ==
    IF algorithm = LEFT_ASYMMETRIC THEN
        LET pd == stripe % raid_disks
        IN  StripeInfo(stripe, ois, IF dd_idx >= pd THEN dd_idx + 1 ELSE dd_idx, pd, None, FALSE)
    ELSE IF algorithm = RIGHT_ASYMMETRIC THEN
        LET pd == data_disks - (stripe % raid_disks)
        IN  StripeInfo(stripe, ois, IF dd_idx >= pd THEN dd_idx + 1 ELSE dd_idx, pd, None, FALSE)
    ELSE IF algorithm = LEFT_SYMMETRIC THEN
        LET pd == stripe % raid_disks
        IN  StripeInfo(stripe, ois, (pd + 1 + dd_idx) % raid_disks, pd, None, FALSE)
    ELSE IF algorithm = RIGHT_SYMMETRIC THEN
        LET pd == data_disks - (stripe % raid_disks)
        IN  StripeInfo(stripe, ois, (pd + 1 + dd_idx) % raid_disks, pd, None, FALSE)
    ELSE IF algorithm = PARITY_0 THEN
        StripeInfo(stripe, ois, dd_idx + 1, 0, None, FALSE)
    ELSE IF algorithm = PARITY_N THEN
        StripeInfo(stripe, ois, dd_idx, data_disks, None, FALSE)
    ELSE StripeError("RAIDError: Invalid RAID algorithm", stripe, ois)

\* The level == 5 branch, lines 219-246.
Raid5Info(algorithm, stripe, ois, dd_idx, raid_disks, data_disks) ==
    IF algorithm = LEFT_ASYMMETRIC THEN
        LET pd == data_disks - (stripe % raid_disks)
        IN  StripeInfo(stripe, ois, IF dd_idx >= pd THEN dd_idx + 1 ELSE dd_idx, pd, None, FALSE)
    ELSE IF algorithm = RIGHT_ASYMMETRIC THEN
        LET pd == stripe % raid_disks
        IN  StripeInfo(stripe, ois, IF dd_idx >= pd THEN dd_idx + 1 ELSE dd_idx, pd, None, FALSE)
    ELSE IF algorithm = LEFT_SYMMETRIC THEN
        LET pd == data_disks - (stripe % raid_disks)
        IN  StripeInfo(stripe, ois, (pd + 1 + dd_idx) % raid_disks, pd, None, FALSE)
    ELSE IF algorithm = RIGHT_SYMMETRIC THEN
        LET pd == stripe % raid_disks
        IN  StripeInfo(stripe, ois, (pd + 1 + dd_idx) % raid_disks, pd, None, FALSE)
    ELSE IF algorithm = PARITY_0 THEN
        StripeInfo(stripe, ois, dd_idx + 1, 0, None, FALSE)
    ELSE IF algorithm = PARITY_N THEN
        StripeInfo(stripe, ois, dd_idx, data_disks, None, FALSE)
    ELSE StripeError("RAIDError: Invalid RAID algorithm", stripe, ois)

\* The three-way rule with data at or after P stepping over P only.
Raid6AsymOverP(stripe, ois, dd_idx, pd, raid_disks, ddf_layout) ==
    IF pd = raid_disks - 1
    THEN StripeInfo(stripe, ois, dd_idx + 1, pd, 0, ddf_layout)
    ELSE IF dd_idx >= pd
    THEN StripeInfo(stripe, ois, dd_idx + 1, pd, pd + 1, ddf_layout)
    ELSE StripeInfo(stripe, ois, dd_idx, pd, pd + 1, ddf_layout)

\* The three-way rule shared by the RAID6 *_ASYMMETRIC and ROTATING_*_RESTART
\* layouts: Q wraps to 0 when P is last, else data at or after P skips P and Q.
Raid6Asym(stripe, ois, dd_idx, pd, raid_disks, ddf_layout) ==
    IF pd = raid_disks - 1
    THEN StripeInfo(stripe, ois, dd_idx + 1, pd, 0, ddf_layout)
    ELSE IF dd_idx >= pd
    THEN StripeInfo(stripe, ois, dd_idx + 2, pd, pd + 1, ddf_layout)
    ELSE StripeInfo(stripe, ois, dd_idx, pd, pd + 1, ddf_layout)

\* The level == 6 branch, lines 248-352.
Raid6Info(algorithm, stripe, ois, dd_idx, raid_disks, data_disks) ==
    IF algorithm = LEFT_ASYMMETRIC THEN
        Raid6Asym(stripe, ois, dd_idx, raid_disks - 1 - (stripe % raid_disks), raid_disks, FALSE)
    ELSE IF algorithm = RIGHT_ASYMMETRIC THEN
        Raid6Asym(stripe, ois, dd_idx, stripe % raid_disks, raid_disks, FALSE)
    ELSE IF algorithm = LEFT_SYMMETRIC THEN
        LET pd == raid_disks - 1 - (stripe % raid_disks)
        IN  StripeInfo(stripe, ois, (pd + 2 + dd_idx) % raid_disks, pd, (pd + 1) % raid_disks, FALSE)
    ELSE IF algorithm = RIGHT_SYMMETRIC THEN
        LET pd == stripe % raid_disks
        IN  StripeInfo(stripe, ois, (pd + 2 + dd_idx) % raid_disks, pd, (pd + 1) % raid_disks, FALSE)
    ELSE IF algorithm = PARITY_0 THEN
        StripeInfo(stripe, ois, dd_idx + 2, 0, 1, FALSE)
    ELSE IF algorithm = PARITY_N THEN
        StripeInfo(stripe, ois, dd_idx, data_disks, data_disks + 1, FALSE)
    ELSE IF algorithm = ROTATING_ZERO_RESTART THEN
        Raid6Asym(stripe, ois, dd_idx, stripe % raid_disks, raid_disks, TRUE)
    ELSE IF algorithm = ROTATING_N_RESTART THEN
        Raid6Asym(stripe, ois, dd_idx, raid_disks - 1 - ((stripe + 1) % raid_disks), raid_disks, TRUE)
    ELSE IF algorithm = ROTATING_N_CONTINUE THEN
        LET pd == raid_disks - 1 - (stripe % raid_disks)
        IN  StripeInfo(stripe, ois, (pd + 1 + dd_idx) % raid_disks, pd,
                       (pd + raid_disks - 1) % raid_disks, TRUE)
    ELSE IF algorithm = LEFT_ASYMMETRIC_6 THEN
        LET pd == data_disks - (stripe % (raid_disks - 1))
        IN  StripeInfo(stripe, ois, IF dd_idx >= pd THEN dd_idx + 1 ELSE dd_idx, pd,
                       raid_disks - 1, FALSE)
    ELSE IF algorithm = RIGHT_ASYMMETRIC_6 THEN
        \* qd_idx is assigned inside the "if dd_idx >= pd_idx" block (line 335)
        LET pd == stripe % (raid_disks - 1)
        IN  IF dd_idx >= pd
            THEN StripeInfo(stripe, ois, dd_idx + 1, pd, raid_disks - 1, FALSE)
            ELSE StripeInfo(stripe, ois, dd_idx, pd, None, FALSE)
    ELSE IF algorithm = LEFT_SYMMETRIC_6 THEN
        LET pd == data_disks - (stripe % (raid_disks - 1))
        IN  StripeInfo(stripe, ois, (pd + 1 + dd_idx) % (raid_disks - 1), pd, raid_disks - 1, FALSE)
    ELSE IF algorithm = RIGHT_SYMMETRIC_6 THEN
        LET pd == stripe % (raid_disks - 1)
        IN  StripeInfo(stripe, ois, (pd + 1 + dd_idx) % (raid_disks - 1), pd, raid_disks - 1, FALSE)
    ELSE IF algorithm = PARITY_0_6 THEN
        StripeInfo(stripe, ois, dd_idx + 1, 0, raid_disks - 1, FALSE)
    ELSE StripeError("RAIDError: Invalid RAID algorithm", stripe, ois)

\* max_degraded of RAID456Stream.__init__, line 193.
MaxDegraded(level) == IF level = 6 THEN 2 ELSE 1

\* _get_stripe_read_info with rows of raid_disks chunks.
GetStripeReadInfoRows(level, algorithm, raid_disks, stripe_size, offset) ==
    LET data_disks == raid_disks - MaxDegraded(level)
        stripe_number    == offset \div stripe_size
        offset_in_stripe == offset % stripe_size
    IN  IF data_disks = 0
        THEN StripeError("ZeroDivisionError", None, offset_in_stripe)
        ELSE LET stripe == stripe_number \div raid_disks
                 dd_idx == stripe_number % data_disks
             IN  IF level = 4 THEN
                     StripeInfo(stripe, offset_in_stripe, dd_idx, data_disks, None, FALSE)
                 ELSE IF level = 5 THEN
                     Raid5Info(algorithm, stripe, offset_in_stripe, dd_idx, raid_disks, data_disks)
                 ELSE IF level = 6 THEN
                     Raid6Info(algorithm, stripe, offset_in_stripe, dd_idx, raid_disks, data_disks)
                 ELSE StripeError("RAIDError: Invalid RAID level", stripe, offset_in_stripe)

\* _get_stripe_read_info, stream.py 201-359.
GetStripeReadInfo(level, algorithm, raid_disks, stripe_size, offset) ==
    LET data_disks == raid_disks - MaxDegraded(level)
        stripe_number    == offset \div stripe_size
        offset_in_stripe == offset % stripe_size
    IN  IF data_disks = 0
        THEN StripeError("ZeroDivisionError", None, offset_in_stripe)
        ELSE LET stripe == stripe_number \div data_disks
                 dd_idx == stripe_number % data_disks
             IN  IF level = 4 THEN
                     StripeInfo(stripe, offset_in_stripe, dd_idx, data_disks, None, FALSE)
                 ELSE IF level = 5 THEN
                     Raid5Info(algorithm, stripe, offset_in_stripe, dd_idx, raid_disks, data_disks)
                 ELSE IF level = 6 THEN
                     Raid6Info(algorithm, stripe, offset_in_stripe, dd_idx, raid_disks, data_disks)
                 ELSE StripeError("RAIDError: Invalid RAID level", stripe, offset_in_stripe)

-----------------------------------------------------------------------------
(* The stream constructors, raid/stream.py.  The streams read the role     *)
(* map {role: (start, PhysicalDisk)} of the virtual disk they are given    *)
(* through its attribute physical_disks; a PhysicalDisk is [id, offset,    *)
(* size].  VirtualDisk.__init__ (raid.py 60) stores the role map as        *)
(* disk_map, so a virtual disk has the attribute physical_disks only when  *)
(* its caller has set it.                                                  *)

Raise(e) == [kind |-> "error", err |-> e]

\* virtual_disk.physical_disks on an object without the attribute.
NoPhysicalDisks(v) == "physical_disks" \notin DOMAIN v

AttributeError == Raise("AttributeError: 'VirtualDisk' object has no attribute 'physical_disks'")

\* The file behind a PhysicalDisk ends where its data section ends.
FileSize(disk) == disk.offset + disk.size

\* LinearStream.__init__, lines 54-65: the (offset, size, disk) runs added
\* to the MappingStream, in role order.
RECURSIVE LinearRuns(_, _, _)
LinearRuns(pds, roles, offset) ==
    IF roles = <<>> THEN <<>>
    ELSE LET e == pds[Head(roles)]
         IN  <<[offset |-> offset, size |-> e.disk.size, disk |-> e.disk.id,
                disk_offset |-> e.start]>>
             \o LinearRuns(pds, Tail(roles), offset + e.disk.size)

LinearStreamInit(v) ==
    IF NoPhysicalDisks(v) THEN AttributeError
    ELSE IF Cardinality(DOMAIN v.physical_disks) # v.num_disks
    THEN Raise("RAIDError: Missing disks")
    ELSE [kind |-> "LinearStream",
          runs |-> LinearRuns(v.physical_disks, SortedKeys(DOMAIN v.physical_disks), 0)]

\* RAID456Stream.__init__, lines 189-199.
RAID456StreamInit(v) ==
    LET max_degraded == MaxDegraded(v.level)
    IN  IF NoPhysicalDisks(v) THEN AttributeError
        ELSE IF Cardinality(DOMAIN v.physical_disks) < v.num_disks - max_degraded
        THEN Raise("RAIDError: Missing disks")
        ELSE [kind |-> "RAID456Stream", level |-> v.level, algorithm |-> v.layout,
              max_degraded |-> max_degraded, disks |-> v.physical_disks]

\* Line 410, ((raid_disks / far_set_size) - 1) * far_set_size in IEEE 754
\* double arithmetic, for raid_disks >= 0 and far_set_size >= 1.  The
\* quotient is rounded to 53 significant bits (to nearest, ties to even),
\* the difference and the product likewise.  The result is the integer
\* raid_disks - far_set_size when the roundings cancel, and otherwise the
\* record [int, ulps, exp] that stands for the double int + ulps * 2^exp.
last_far_set_start(raid_disks, far_set_size) ==
    LET n == raid_disks
        f == far_set_size
        RECURSIVE Pow2(_)
        Pow2(k) == IF k <= 0 THEN 1 ELSE 2 * Pow2(k - 1)
        \* (n * 2^k) mod m
        RECURSIVE ScaledMod(_, _, _)
        ScaledMod(x, k, m) == IF k = 0 THEN x % m ELSE ScaledMod((2 * x) % m, k - 1, m)
        RECURSIVE Log2(_, _)
        Log2(a, b) == IF 2 * b <= a THEN 1 + Log2(a, 2 * b) ELSE 0    \* floor(log2(a / b)), a >= b
        RECURSIVE NegLog2(_)
        NegLog2(j) == IF n * Pow2(j) >= f THEN j ELSE NegLog2(j + 1)
        \* round x / h to an integer, ties to even
        Nearest(x, h) ==
            LET c == x \div h
                r == x % h
            IN  IF 2 * r < h THEN c
                ELSE IF 2 * r > h THEN c + 1
                ELSE IF c % 2 = 0 THEN c ELSE c + 1
        \* the quotient q = n / f has exponent e; k = 52 - e
        e  == IF n >= f THEN Log2(n, f) ELSE 0 - NegLog2(1)
        k  == 52 - e
        \* q = (n * 2^k + d) / (f * 2^k)
        R  == ScaledMod(n, k, f)
        d  == IF R = 0 THEN 0
              ELSE IF 2 * R < f THEN 0 - R
              ELSE IF 2 * R > f THEN f - R
              ELSE IF ScaledMod(n, k, 2 * f) \div f = 0 THEN 0 - R ELSE f - R
        \* q - 1 rounds when q < 1/2: its last j bits are dropped
        j  == 0 - e - 1
        h  == Pow2(j)
        m  == (ScaledMod(n, k, 2 * f * h) + 2 * f * h + d) % (2 * f * h)
        low == (m \div f) % h
        g  == IF e >= 0 - 1 \/ low = 0 THEN 0
              ELSE IF 2 * low < h THEN 0 - low
              ELSE IF 2 * low > h THEN h - low
              ELSE IF (m \div f) \div h = 0 THEN 0 - low ELSE h - low
        dd == d + g * f
        \* the product is (n - f) + dd * 2^-k, rounded at the exponent e2
        B    == n - f
        absB == IF B < 0 THEN 0 - B ELSE B
        top  == Log2(absB, 1)
        e2   == IF (dd > 0) # (B > 0) /\ Pow2(top) = absB THEN top - 1 ELSE top
        D    == IF e >= e2 THEN dd * Pow2(e - e2) ELSE Nearest(dd, Pow2(e2 - e))
    IN  IF n % f = 0 \/ dd = 0 \/ D = 0 THEN n - f
        ELSE [int |-> B, ulps |-> D, exp |-> e2 - 52]

\* RAID10Stream.__init__, lines 386-413 (setup_geo).
RAID10StreamInit(v) ==
    LET layout       == v.layout
        raid_disks   == v.num_disks
        near_copies  == layout % 256
        far_copies   == (layout \div 256) % 256
        far_offset   == ((layout \div 65536) % 2) * 65536
        use_far_sets == layout \div 131072
        far_set_size == IF use_far_sets = 0 THEN raid_disks
                        ELSE IF use_far_sets = 1 THEN raid_disks \div far_copies
                        ELSE far_copies * near_copies
    IN  IF NoPhysicalDisks(v) THEN AttributeError
        ELSE IF use_far_sets > 2 THEN Raise("ValueError: Invalid RAID10 layout")
        ELSE IF use_far_sets = 1 /\ far_copies = 0 THEN Raise("ZeroDivisionError")
        ELSE IF far_set_size = 0 THEN Raise("ZeroDivisionError")
        ELSE [kind |-> "RAID10Stream", raid_disks |-> raid_disks,
              devices |-> v.physical_disks,
              near_copies |-> near_copies, far_copies |-> far_copies,
              far_offset |-> far_offset, far_set_size |-> far_set_size,
              last_far_set_start |-> last_far_set_start(raid_disks, far_set_size),
              last_far_set_size |-> far_set_size + (raid_disks % far_set_size)]

-----------------------------------------------------------------------------
(* RAID0Stream.__init__, lines 77-143 (create_strip_zones).                *)

\* rounded_sizes[dev], line 94.
Rounded(disk, stripe_size) == (disk.size \div stripe_size) * stripe_size

\* The disks of the role map in role order.
DisksInOrder(pds) ==
    LET roles == SortedKeys(DOMAIN pds)
    IN  [i \in 1..Len(roles) |-> pds[roles[i]].disk]

\* Lines 92-108: a member opens a new strip zone when its rounded size equals
\* the size attribute of no member before it.
NumStripZones(devs, stripe_size) ==
    Cardinality({i \in 1..Len(devs) :
        ~ \E j \in 1..(i - 1) : Rounded(devs[i], stripe_size) = devs[j].size})

\* Lines 111-114 and 126-132: the index of the first member of smallest
\* rounded size among the candidates; 0 stands for None.
Smallest(devs, cand, stripe_size) ==
    IF cand = {} THEN 0
    ELSE CHOOSE i \in cand :
           /\ \A j \in cand : Rounded(devs[i], stripe_size) <= Rounded(devs[j], stripe_size)
           /\ \A j \in cand : Rounded(devs[j], stripe_size) = Rounded(devs[i], stripe_size) => i <= j

\* The members, in order, whose index is in the set.
RECURSIVE Pick(_, _, _)
Pick(devs, keep, i) ==
    IF i > Len(devs) THEN <<>>
    ELSE (IF i \in keep THEN <<devs[i]>> ELSE <<>>) \o Pick(devs, keep, i + 1)

\* Lines 120-139: the zones after zone 0.  left counts the iterations to go.
RECURSIVE LaterZones(_, _, _, _, _, _)
LaterZones(devs, stripe_size, left, smallest, cur_zone_end, zones) ==
    IF left = 0 THEN [kind |-> "RAID0Stream", zones |-> zones]
    ELSE LET dev_start   == Rounded(devs[smallest], stripe_size)
             keep        == {i \in 1..Len(devs) : Rounded(devs[i], stripe_size) > dev_start}
             next        == Smallest(devs, keep, stripe_size)
         IN  IF next = 0
             THEN Raise("KeyError")      \* rounded_sizes[None], line 135
             ELSE LET cur_size == (Rounded(devs[next], stripe_size) - dev_start) * Cardinality(keep)
                      zone_end == cur_zone_end + cur_size
                  IN  LaterZones(devs, stripe_size, left - 1, next, zone_end,
                                 Append(zones, [zone_end |-> zone_end, dev_start |-> dev_start,
                                                devices |-> Pick(devs, keep, 1)]))

RAID0StreamInit(v) ==
    IF NoPhysicalDisks(v) THEN AttributeError
    ELSE IF Cardinality(DOMAIN v.physical_disks) # v.num_disks
    THEN Raise("RAIDError: Missing disks")
    ELSE LET devs     == DisksInOrder(v.physical_disks)
             ss       == v.stripe_size
             smallest == Smallest(devs, 1..Len(devs), ss)
             zone0    == [zone_end |-> Rounded(devs[smallest], ss) * Len(devs),
                          dev_start |-> 0, devices |-> v.physical_disks]
         IN  LaterZones(devs, ss, NumStripZones(devs, ss) - 1, smallest,
                        zone0.zone_end, <<zone0>>)

\* len(zone.devices): zone 0 holds the role dict, later zones a list.
ZoneLen(zones, i) ==
    IF i = 1 THEN Cardinality(DOMAIN zones[1].devices) ELSE Len(zones[i].devices)

\* RAID0Stream._find_zone, lines 145-152; zone index 0 stands for (None, None).
FindZone(zones, offset) ==
    LET hit == {i \in 1..Len(zones) : offset < zones[i].zone_end}
    IN  IF hit = {} THEN [zone |-> 0, offset |-> None]
        ELSE LET i == CHOOSE k \in hit : \A m \in hit : k <= m
             IN  [zone |-> i,
                  offset |-> IF i > 1 THEN offset - zones[i - 1].zone_end ELSE offset]

\* RAID0Stream._read, lines 154-183.
RECURSIVE RAID0Read(_, _, _, _, _)
RAID0Read(st, stripe_size, offset, length, acc) ==
    IF length = 0 THEN [status |-> "ok", data |-> acc]
    ELSE
    LET zones == st.zones
        fz    == FindZone(zones, offset)
    IN  IF fz.zone = 0 THEN [status |-> "ok", data |-> acc]
        ELSE
        LET offset_in_zone   == fz.offset
            read_offset      == IF Len(zones) = 1 \/ ZoneLen(zones, 2) = 1
                                THEN offset ELSE offset_in_zone
            ndev             == ZoneLen(zones, fz.zone)
            stripe           == read_offset \div stripe_size
            offset_in_stripe == read_offset % stripe_size
            chunk            == offset_in_zone \div (stripe_size * ndev)
            offset_in_device == (chunk * stripe_size) + offset_in_stripe
            idx              == stripe % ndev
        IN  IF fz.zone > 1
            THEN \* a later zone lists bare PhysicalDisk objects: the tuple
                 \* unpacking of line 171 fails
                 [status |-> "TypeError", data |-> <<>>]
            ELSE IF idx \notin DOMAIN zones[1].devices
            THEN [status |-> "KeyError", data |-> <<>>]
            ELSE
            LET e              == zones[1].devices[idx]
                read_length    == Min(length, stripe_size - offset_in_stripe)
                offset_on_disk == e.disk.offset + e.start + offset_in_device
            IN  RAID0Read(st, stripe_size, offset + read_length, length - read_length,
                          acc \o FhRead(e.disk.id, FileSize(e.disk), offset_on_disk, read_length))

-----------------------------------------------------------------------------
(* RAID456Stream._read and RAID10Stream._read, raid/stream.py.             *)

\* RAID456Stream._read, lines 361-380.
RECURSIVE RAID456Read(_, _, _, _, _)
RAID456Read(st, v, offset, length, acc) ==
    IF length = 0 THEN [status |-> "ok", data |-> acc]
    ELSE
    LET stripe_size == v.stripe_size
        info        == GetStripeReadInfo(st.level, st.algorithm, v.num_disks, stripe_size, offset)
    IN  IF info.err # "none" THEN [status |-> info.err, data |-> <<>>]
        ELSE IF info.dd_idx \notin DOMAIN st.disks THEN [status |-> "KeyError", data |-> <<>>]
        ELSE
        LET offset_in_device == info.stripe * stripe_size + info.offset_in_stripe
            e                == st.disks[info.dd_idx]
            stripe_remaining == stripe_size - info.offset_in_stripe
            read_length      == Min(length, stripe_remaining)
            offset_on_disk   == e.disk.offset + e.start + offset_in_device
        IN  \* line 375 reads "length" bytes, not "read_length"
            RAID456Read(st, v, offset + read_length, length - read_length,
                        acc \o FhRead(e.disk.id, FileSize(e.disk), offset_on_disk, length))

\* RAID10Stream._read, lines 415-438 (__raid10_find_phys, first copy only).
RECURSIVE RAID10Read(_, _, _, _, _)
RAID10Read(st, v, offset, length, acc) ==
    IF length = 0 THEN [status |-> "ok", data |-> acc]
    ELSE
    LET stripe_size      == v.stripe_size
        stripe_number    == offset \div stripe_size
        offset_in_stripe == offset % stripe_size
        chunk            == stripe_number * st.near_copies
        stripe0          == chunk \div st.raid_disks
        dev              == chunk % st.raid_disks
        stripe           == IF st.far_offset # 0 THEN stripe0 * st.far_copies ELSE stripe0
    IN  IF dev \notin DOMAIN st.devices THEN [status |-> "KeyError", data |-> <<>>]
        ELSE
        LET e                == st.devices[dev]
            stripe_remaining == stripe_size - offset_in_stripe
            read_length      == Min(length, stripe_remaining)
            offset_on_disk   == e.disk.offset + e.start + (stripe * stripe_size) + offset_in_stripe
        IN  \* line 433 reads "length" bytes, not "read_length"
            RAID10Read(st, v, offset + read_length, length - read_length,
                       acc \o FhRead(e.disk.id, FileSize(e.disk), offset_on_disk, length))

\* The _read of whichever stream open() returned.
StreamRead(st, v, offset, length) ==
    IF st.kind = "RAID0Stream" THEN RAID0Read(st, v.stripe_size, offset, length, <<>>)
    ELSE IF st.kind = "RAID456Stream" THEN RAID456Read(st, v, offset, length, <<>>)
    ELSE RAID10Read(st, v, offset, length, <<>>)

-----------------------------------------------------------------------------
(* VirtualDisk.open, raid/raid.py 62-78.                                   *)

VirtualDiskOpen(v) ==
    IF v.level = LINEAR THEN LinearStreamInit(v)
    ELSE IF v.level = RAID0 THEN RAID0StreamInit(v)
    ELSE IF v.level = RAID1 THEN
        \* next(iter(disk_map.items())): the first member there is
        IF DOMAIN v.disk_map = {} THEN Raise("StopIteration")
        ELSE LET first == Head(v.order)
             IN  [kind |-> "RangeStream", disk |-> v.disk_map[first].disk.id]
    ELSE IF v.level \in {RAID4, RAID5, RAID6} THEN RAID456StreamInit(v)
    ELSE IF v.level = RAID10 THEN RAID10StreamInit(v)
    ELSE Raise("NotImplementedError: Unsupported RAID level")

-----------------------------------------------------------------------------
(* The virtual disks of the stream model: what an aggregator hands to      *)
(* VirtualDisk.__init__ (raid.py 42-60), for every level, layout, role     *)
(* count and set of roles that were found.                                 *)

Layouts456 == {LEFT_ASYMMETRIC, RIGHT_ASYMMETRIC, LEFT_SYMMETRIC, RIGHT_SYMMETRIC,
               PARITY_0, PARITY_N, 7,
               ROTATING_ZERO_RESTART, ROTATING_N_RESTART, ROTATING_N_CONTINUE,
               LEFT_ASYMMETRIC_6, RIGHT_ASYMMETRIC_6, LEFT_SYMMETRIC_6,
               RIGHT_SYMMETRIC_6, PARITY_0_6}

\* near=2; far=2; far=2 with far_offset; near=2 with use_far_sets 1; near=3 with
\* use_far_sets 2; use_far_sets 3
Layouts10 == {258, 513, 66049, 131330, 262403, 393474}

\* Member sizes (bytes) of the LINEAR and RAID0 sets.
MemberSizes == {4, 5, 8}

LayoutsOf(level) ==
    IF level = RAID4 THEN {LEFT_ASYMMETRIC}
    ELSE IF level \in {RAID5, RAID6} THEN Layouts456
    ELSE IF level = RAID10 THEN Layouts10
    ELSE {0}

Member(id, size) ==
    [start |-> 0, disk |-> [id |-> id, offset |-> DataOffset, size |-> size]]

RECURSIVE SumOver(_, _)
SumOver(f, S) ==
    IF S = {} THEN 0
    ELSE LET x == CHOOSE y \in S : TRUE IN f[x] + SumOver(f, S \ {x})

\* VirtualDisk.size as the set's metadata records it for a complete set.
SizeOf(level, layout, stripe_size, n, sizes) ==
    IF level = LINEAR THEN SumOver(sizes, DOMAIN sizes)
    ELSE IF level = RAID0
    THEN SumOver([r \in DOMAIN sizes |-> (sizes[r] \div stripe_size) * stripe_size], DOMAIN sizes)
    ELSE IF level \in {RAID4, RAID5, RAID6} THEN (n - MaxDegraded(level)) * sizes[0]
    ELSE IF level = RAID10
    THEN LET copies == (layout % 256) * ((layout \div 256) % 256)
         IN  IF copies = 0 THEN 0 ELSE (n * sizes[0]) \div copies
    ELSE sizes[0]

MkVirtualDisk(level, layout, stripe_size, n, sizes, present) ==
    [level          |-> level,
     layout         |-> layout,
     stripe_size    |-> stripe_size,
     num_disks      |-> n,
     size           |-> SizeOf(level, layout, stripe_size, n, sizes),
     disk_map       |-> [r \in present |-> Member(r, sizes[r])],
     order          |-> SortedKeys(present)]

Levels == {LINEAR, RAID0, RAID1, RAID3, RAID4, RAID5, RAID6, RAID10}

Closed  == [kind |-> "closed"]
NoRes   == [op |-> "none", offset |-> 0, length |-> 0, status |-> "none", data |-> <<>>,
            info |-> StripeError("none", None, None)]

AggIdle == family = "none" /\ fhs = <<>> /\ raid = [status |-> "none"]

\* A VirtualDisk of any level over 2..MaxRaidDisks roles, any subset of them
\* present: members of Stripes stripes each, or, for LINEAR and RAID0, of any
\* of the MemberSizes.  The object is as VirtualDisk.__init__ leaves it, or
\* its caller has also made the role map readable as physical_disks, the
\* attribute the stream constructors ask for.
StreamInit ==
    /\ \E ss \in StripeSizes, n \in 2..MaxRaidDisks, level \in Levels :
         \E present \in SUBSET (0..(n - 1)), aliased \in BOOLEAN :
           LET Given(v) == IF aliased THEN v @@ [physical_disks |-> v.disk_map] ELSE v
           IN  \/ \E layout \in LayoutsOf(level) :
                    vd = Given(MkVirtualDisk(level, layout, ss, n,
                                             [r \in 0..(n - 1) |-> Stripes * ss], present))
               \/ /\ level \in {LINEAR, RAID0}
                  /\ \E sizes \in [0..(n - 1) -> MemberSizes] :
                       vd = Given(MkVirtualDisk(level, 0, ss, n, sizes, present))
    /\ stream = Closed
    /\ res = NoRes
    /\ AggIdle
    /\ ddfConv = Unused /\ thinDev = Unused /\ lvmLv = Unused /\ diskObj = Unused /\ mdProbe = Unused /\ vinum = Unused

\* fh = vd.open()
Open ==
    /\ stream.kind = "closed"
    /\ stream' = VirtualDiskOpen(vd)
    /\ UNCHANGED <<vd, res, family, fhs, raid, ddfConv, thinDev, lvmLv, diskObj, mdProbe, vinum>>

\* fh._read(offset, length), for a range inside the volume.  _read keeps no
\* state between calls, so one call per run covers every call.
Read ==
    /\ res.op = "none"
    /\ stream.kind \in {"RAID0Stream", "RAID456Stream", "RAID10Stream"}
    /\ \E offset \in 0..MaxOffset, length \in 1..MaxReadLen :
         /\ offset + length <= vd.size
         /\ LET r == StreamRead(stream, vd, offset, length)
            IN  res' = [op |-> "read", offset |-> offset, length |-> length,
                        status |-> r.status, data |-> r.data, info |-> NoRes.info]
    /\ UNCHANGED <<vd, stream, family, fhs, raid, ddfConv, thinDev, lvmLv, diskObj, mdProbe, vinum>>

\* fh._get_stripe_read_info(offset)
StripeReadInfo ==
    /\ res.op = "none"
    /\ stream.kind = "RAID456Stream"
    /\ \E offset \in 0..MaxInfoOffset :
         res' = [op |-> "info", offset |-> offset, length |-> 0, status |-> "none",
                 data |-> <<>>,
                 info |-> GetStripeReadInfo(stream.level, stream.algorithm, vd.num_disks,
                                            vd.stripe_size, offset)]
    /\ UNCHANGED <<vd, stream, family, fhs, raid, ddfConv, thinDev, lvmLv, diskObj, mdProbe, vinum>>

StreamNext == Open \/ Read \/ StripeReadInfo

Spec == StreamInit /\ [][StreamNext]_vars

-----------------------------------------------------------------------------
(* The MD aggregator: md/md.py.                                            *)

SECTOR_SIZE          == 512
MD_DISK_ROLE_SPARE   == 65535
MD_DISK_ROLE_JOURNAL == 65533
MD_DISK_ROLE_MAX     == 65280

\* Python's a & b on non-negative integers.
RECURSIVE BitAnd(_, _)
BitAnd(a, b) ==
    IF a = 0 \/ b = 0 THEN 0
    ELSE (a % 2) * (b % 2) + 2 * BitAnd(a \div 2, b \div 2)

\* sorted(seq, key=...) for the integer keys keys[i] of seq[i]: stable.
StableSort(seq, keys) ==
    LET n       == Len(seq)
        rank(i) == Cardinality({j \in 1..n : keys[j] < keys[i] \/ (keys[j] = keys[i] /\ j < i)}) + 1
    IN  [r \in 1..n |-> seq[CHOOSE i \in 1..n : rank(i) = r]]

\* The 1.x superblocks found on the members of two sets.  The members of a
\* set were written at different times: a member that dropped out before a
\* reshape still carries the older geometry and a lower events counter.
MDSuperblocks ==
    { [set_uuid |-> 1, set_name |-> "a", events |-> 1, level |-> RAID5, layout |-> LEFT_SYMMETRIC,
       chunksize |-> 1, raid_disks |-> 3, size |-> 4, data_size |-> 4],
      [set_uuid |-> 1, set_name |-> "b", events |-> 2, level |-> RAID0, layout |-> 0,
       chunksize |-> 2, raid_disks |-> 3, size |-> 0, data_size |-> 5],
      [set_uuid |-> 1, set_name |-> "c", events |-> 2, level |-> RAID6, layout |-> LEFT_ASYMMETRIC,
       chunksize |-> 1, raid_disks |-> 4, size |-> 3, data_size |-> 3],
      [set_uuid |-> 2, set_name |-> "d", events |-> 3, level |-> LINEAR, layout |-> 0,
       chunksize |-> 0, raid_disks |-> 2, size |-> 0, data_size |-> 3] }

\* A superblock of a level MD() does not read (RAID3).
MDUnsupported ==
    [set_uuid |-> 2, set_name |-> "e", events |-> 4, level |-> RAID3, layout |-> 0,
     chunksize |-> 1, raid_disks |-> 3, size |-> 2, data_size |-> 2]

\* dev_roles[dev_number] of a member: an active role, or a spare.
MDRoles == {0, 1, 2, MD_DISK_ROLE_SPARE}

\* The file-like objects MD() can be given: a superblock and the member's role.
MDFiles ==
    { [sb |-> sb, role |-> role, data_offset |-> DataOffset] :
        sb \in MDSuperblocks, role \in MDRoles }
    \cup { [sb |-> MDUnsupported, role |-> 0, data_offset |-> DataOffset] }

\* MDPhysicalDisk.__init__, lines 92-143, for 1.x metadata; id is the
\* position of the file-like object in the list MD() was given.
MDPhysicalDisk(fh, id) ==
    [id         |-> id,
     set_uuid   |-> fh.sb.set_uuid,
     set_name   |-> fh.sb.set_name,
     events     |-> fh.sb.events,
     chunk_size |-> fh.sb.chunksize * SECTOR_SIZE,
     raid_disk  |-> IF fh.role = MD_DISK_ROLE_JOURNAL THEN 0
                    ELSE IF fh.role <= MD_DISK_ROLE_MAX THEN fh.role
                    ELSE None,
     level      |-> fh.sb.level,
     layout     |-> fh.sb.layout,
     raid_disks |-> fh.sb.raid_disks,
     sb_size    |-> fh.sb.size,
     offset     |-> fh.data_offset * SECTOR_SIZE,
     size       |-> fh.sb.data_size * SECTOR_SIZE]

\* The first disk of the list, whatever its events counter.
ReferenceDiskFirst(physical_disks) == physical_disks[1]

\* Line 54: the first of the disks with the highest events counter.
ReferenceDisk(physical_disks) ==
    StableSort(physical_disks, [i \in 1..Len(physical_disks) |-> 0 - physical_disks[i].events])[1]

\* Every id as a key of its own, repeated ones included.
KeysInOrderAll(ids, seen) == ids

\* The keys of a dict filled in the order of ids, in insertion order.
RECURSIVE KeysInOrder(_, _)
KeysInOrder(ids, seen) ==
    IF ids = <<>> THEN <<>>
    ELSE IF Head(ids) \in seen THEN KeysInOrder(Tail(ids), seen)
    ELSE <<Head(ids)>> \o KeysInOrder(Tail(ids), seen \cup {Head(ids)})

\* Line 55: the role map; a later disk of the same role replaces an earlier one.
MDDiskMap(physical_disks) ==
    LET roles == {physical_disks[i].raid_disk : i \in 1..Len(physical_disks)} \ {None}
        last(r) == CHOOSE i \in 1..Len(physical_disks) :
                     /\ physical_disks[i].raid_disk = r
                     /\ \A j \in (i + 1)..Len(physical_disks) : physical_disks[j].raid_disk # r
    IN  [r \in roles |->
           LET disk == physical_disks[last(r)]
           IN  [start |-> 0, disk |-> [id |-> disk.id, offset |-> disk.offset, size |-> disk.size]]]

\* MDVirtualDisk.__init__, lines 53-80.
MDVirtualDisk(physical_disks) ==
    LET reference_disk == ReferenceDisk(physical_disks)
        disk_map       == MDDiskMap(physical_disks)
        level          == reference_disk.level
        mask           == reference_disk.chunk_size - 1
        size ==
            IF level = LINEAR
            THEN SumOver([r \in DOMAIN disk_map |-> disk_map[r].disk.size], DOMAIN disk_map)
            ELSE IF level = RAID0
            THEN SumOver([r \in DOMAIN disk_map |->
                            IF mask < 0 THEN 0
                            ELSE disk_map[r].disk.size - BitAnd(disk_map[r].disk.size, mask)],
                         DOMAIN disk_map)
            ELSE reference_disk.sb_size * SECTOR_SIZE
    IN  IF level \notin {LINEAR, RAID0, RAID1, RAID4, RAID5, RAID6, RAID10}
        THEN Raise("ValueError: Invalid MD RAID configuration")
        ELSE [kind           |-> "VirtualDisk",
              name           |-> reference_disk.set_name,
              uuid           |-> reference_disk.set_uuid,
              size           |-> size,
              level          |-> level,
              layout         |-> reference_disk.layout,
              stripe_size    |-> reference_disk.chunk_size,
              num_disks      |-> reference_disk.raid_disks,
              disk_map       |-> disk_map,
              order          |-> KeysInOrder(SelectSeq([i \in 1..Len(physical_disks) |->
                                                          physical_disks[i].raid_disk],
                                                       LAMBDA r : r # None), {})]

\* MDConfiguration.__init__, lines 42-49.  Sorting two or more disks compares
\* their raid_disk values, and None does not compare.
MDConfiguration(disks) ==
    LET keys           == [i \in 1..Len(disks) |-> disks[i].raid_disk]
        physical_disks == StableSort(disks, keys)
        virtual_disk   == MDVirtualDisk(physical_disks)
    IN  IF Len(disks) >= 2 /\ \E i \in 1..Len(disks) : keys[i] = None
        THEN Raise("TypeError")
        ELSE IF Cardinality({disks[i].set_uuid : i \in 1..Len(disks)}) # 1
        THEN Raise("ValueError: Multiple MD sets detected")
        ELSE IF virtual_disk.kind = "error" THEN virtual_disk
        ELSE [kind |-> "Configuration", physical_disks |-> physical_disks,
              virtual_disks |-> <<virtual_disk>>]

\* The first error among the results, or none.
FirstError(results) ==
    IF \E i \in 1..Len(results) : results[i].kind = "error"
    THEN results[CHOOSE i \in 1..Len(results) :
                   /\ results[i].kind = "error"
                   /\ \A j \in 1..(i - 1) : results[j].kind # "error"].err
    ELSE "none"

\* RAID.__init__ given the configurations, or the exception that ended it.
RAIDOf(configurations) ==
    IF FirstError(configurations) # "none"
    THEN [status |-> FirstError(configurations), configurations |-> <<>>]
    ELSE [status |-> "ok", configurations |-> configurations]

\* MD.__init__, lines 30-38.
MDOf(files) ==
    LET physical_disks == [i \in 1..Len(files) |-> MDPhysicalDisk(files[i], i)]
        uuids          == KeysInOrder([i \in 1..Len(files) |-> physical_disks[i].set_uuid], {})
        config_map(u)  == SelectSeq(physical_disks, LAMBDA d : d.set_uuid = u)
    IN  RAIDOf([k \in 1..Len(uuids) |-> MDConfiguration(config_map(uuids[k]))])

-----------------------------------------------------------------------------
(* The DDF aggregator: ddf/ddf.py.                                         *)

DDF_VDCR_RAID0    == 0
DDF_VDCR_RAID1    == 1
DDF_VDCR_RAID4    == 4
DDF_VDCR_RAID5    == 5
DDF_VDCR_RAID6    == 6
DDF_VDCR_RAID1E   == 17
DDF_VDCR_CONCAT   == 31
DDF_VDCR_2STRIPED == 0
DDF_VDCR_2SPANNED == 3
\* 0xFFFFFFFF, the reference of an unused element, as a signed 32-bit number.
UnusedElement     == -1
UnsetBlockSize    == 65535
DDFSectorSize     == 512

ConvertOk(level, layout, num_disks) ==
    [kind |-> "ok", level |-> level, layout |-> layout, num_disks |-> num_disks]

\* _convert_raid_layout, lines 290-377.
ConvertRaidLayout(prl, rlq, srl, pec, sec) ==
    IF sec > 1
    THEN IF prl # DDF_VDCR_RAID1 \/ srl \notin {DDF_VDCR_2STRIPED, DDF_VDCR_2SPANNED}
         THEN Raise("ValueError: Unsupported secondary RAID level")
         ELSE ConvertOk(RAID10,
                        IF pec = 2 /\ rlq = 0 THEN 258
                        ELSE IF pec = 3 /\ rlq = 1 THEN 259
                        ELSE None,
                        pec * sec)
    ELSE IF prl = DDF_VDCR_CONCAT THEN ConvertOk(LINEAR, None, pec)
    ELSE IF prl = DDF_VDCR_RAID0
    THEN IF rlq # 0 THEN Raise("ValueError: Unsupported DDF RAID0 layout")
         ELSE ConvertOk(RAID0, None, pec)
    ELSE IF prl = DDF_VDCR_RAID1
    THEN IF ~((rlq = 0 /\ pec = 2) \/ (rlq = 1 /\ pec = 3))
         THEN Raise("ValueError: Unsupported DDF RAID1 layout")
         ELSE ConvertOk(RAID1, None, pec)
    ELSE IF prl = DDF_VDCR_RAID1E
    THEN IF rlq = 0 THEN ConvertOk(RAID10, 258, pec)
         ELSE IF rlq = 1 THEN ConvertOk(RAID10, 513, pec)
         ELSE Raise("ValueError: Unsupported DDF RAID1E layout")
    ELSE IF prl = DDF_VDCR_RAID4
    THEN IF rlq # 1 THEN Raise("ValueError: Unsupported DDF RAID4 layout")
         ELSE ConvertOk(RAID4, None, pec)
    ELSE IF prl = DDF_VDCR_RAID5
    THEN IF rlq = 2 THEN ConvertOk(RAID5, LEFT_ASYMMETRIC, pec)
         ELSE IF rlq = 0 THEN ConvertOk(RAID5, RIGHT_ASYMMETRIC, pec)
         ELSE IF rlq = 3 THEN ConvertOk(RAID5, LEFT_SYMMETRIC, pec)
         ELSE Raise("ValueError: Unsupported DDF RAID5 layout")
    ELSE IF prl = DDF_VDCR_RAID6
    THEN IF rlq = 2 THEN ConvertOk(RAID6, ROTATING_N_RESTART, pec)
         ELSE IF rlq = 1 THEN ConvertOk(RAID6, ROTATING_ZERO_RESTART, pec)
         ELSE IF rlq = 3 THEN ConvertOk(RAID6, ROTATING_N_CONTINUE, pec)
         ELSE Raise("ValueError: Unsupported DDF RAID6 layout")
    ELSE Raise("ValueError: Unsupported DDF RAID layout")

Vdcr(guid, seq, prl, rlq, pec, sec, sec_seq, strip, size, bs, pds) ==
    [guid |-> guid, sequence_number |-> seq, primary_raid_level |-> prl,
     raid_level_qualifier |-> rlq, secondary_raid_level |-> DDF_VDCR_2STRIPED,
     primary_element_count |-> pec, secondary_element_count |-> sec,
     secondary_element_seq |-> sec_seq, strip_size |-> strip, size |-> size,
     block_size |-> bs, physical_disk_sequence |-> pds,
     starting_block |-> [i \in 1..Len(pds) |-> 0]]

\* The configuration sections found on the disks of two DDF sets: the header
\* GUID, the VD entry and the VD configuration record.  A disk that dropped
\* out of a set keeps the record of a lower sequence number.
DDFSections ==
    { [header |-> 1, name |-> "a", vdcr |-> Vdcr(1, 1, DDF_VDCR_RAID5, 2, 3, 1, 0, 0, 8, 512, <<1, 2, 3>>)],
      [header |-> 1, name |-> "b", vdcr |-> Vdcr(1, 2, DDF_VDCR_RAID0, 0, 2, 1, 0, 1, 6, 512, <<1, 2>>)],
      [header |-> 1, name |-> "c", vdcr |-> Vdcr(1, 3, DDF_VDCR_RAID5, 1, 3, 1, 0, 0, 8, 512, <<1, 2, 3>>)],
      [header |-> 1, name |-> "d", vdcr |-> Vdcr(3, 1, DDF_VDCR_CONCAT, 0, 1, 1, 0, 0, 4, UnsetBlockSize, <<3>>)],
      [header |-> 2, name |-> "e", vdcr |-> Vdcr(2, 1, DDF_VDCR_RAID1, 0, 2, 2, 0, 0, 8, 512, <<1, 2>>)],
      [header |-> 2, name |-> "f", vdcr |-> Vdcr(2, 1, DDF_VDCR_RAID1, 0, 2, 2, 1, 0, 8, 512, <<UnusedElement, 3>>)] }

\* The file-like objects DDF() can be given: the sections and the disk's
\* own reference, with its entry in the physical disk records.
DDFFiles ==
    { [sections |-> sec, reference |-> ref, pdr_size |-> 8, pdr_block_size |-> 512] :
        sec \in {s \in DDFSections : s.name \in {"a", "b"}}, ref \in 1..3 }
    \cup
    { [sections |-> sec, reference |-> ref, pdr_size |-> 8, pdr_block_size |-> 512] :
        sec \in {s \in DDFSections : s.name \in {"d", "e", "f"}}, ref \in {1, 3} }
    \cup
    { [sections |-> sec, reference |-> 1, pdr_size |-> 8, pdr_block_size |-> 512] :
        sec \in {s \in DDFSections : s.name = "c"} }

\* DDFPhysicalDisk.__init__, lines 111-169; id is the position of the
\* file-like object in the list DDF() was given.
DDFPhysicalDisk(fh, id, sector_size) ==
    LET block_size == IF fh.pdr_block_size = UnsetBlockSize THEN sector_size
                      ELSE fh.pdr_block_size
    IN  [id         |-> id,
         header     |-> fh.sections.header,
         reference  |-> fh.reference,
         block_size |-> block_size,
         offset     |-> 0,
         size       |-> fh.pdr_size * block_size,
         virtual_disk_records |-> <<[guid |-> fh.sections.vdcr.guid, name |-> fh.sections.name]>>,
         virtual_disk_configuration_records |-> <<fh.sections.vdcr>>]

RECURSIVE Flatten(_)
Flatten(seqs) == IF seqs = <<>> THEN <<>> ELSE Head(seqs) \o Flatten(Tail(seqs))

\* The item a dict holds under key k after the items were stored in order
\* under keys[i]: the last one stored.
LastStored(items, keys, k) ==
    items[CHOOSE i \in 1..Len(items) :
            /\ keys[i] = k
            /\ \A j \in (i + 1)..Len(items) : keys[j] # k]

\* Lines 53-62: the (role, starting_block, reference) entries of one record;
\* i counts the elements that are in use.
RECURSIVE VdcrEntries(_, _, _)
VdcrEntries(vdcr, k, i) ==
    IF k > Len(vdcr.physical_disk_sequence) THEN <<>>
    ELSE LET pds   == vdcr.physical_disk_sequence[k]
             count == vdcr.primary_element_count
             sec   == IF vdcr.secondary_element_count = 1 THEN 0
                      ELSE vdcr.secondary_element_seq
         IN  <<[role |-> sec * count + i, start |-> vdcr.starting_block[k], ref |-> pds]>>
             \o VdcrEntries(vdcr, k + 1, IF pds # UnusedElement THEN i + 1 ELSE i)

\* DDFVirtualDisk.__init__, lines 69-99; pds are the disks of the
\* configuration, looked up for the block size of the first mapped disk.
DDFVirtualDisk(vdcr, vdr, disks, order, pds) ==
    LET first      == CHOOSE d \in 1..Len(pds) : pds[d].id = disks[order[1]].disk.id
        block_size == IF vdcr.block_size = UnsetBlockSize THEN pds[first].block_size
                      ELSE vdcr.block_size
        conv == ConvertRaidLayout(vdcr.primary_raid_level, vdcr.raid_level_qualifier,
                                  vdcr.secondary_raid_level, vdcr.primary_element_count,
                                  vdcr.secondary_element_count)
    IN  IF vdcr.block_size = UnsetBlockSize /\ order = <<>> THEN Raise("IndexError")
        ELSE IF conv.kind = "error" THEN conv
        ELSE [kind           |-> "VirtualDisk",
              name           |-> vdr.name,
              uuid           |-> vdr.guid,
              size           |-> vdcr.size * block_size,
              level          |-> conv.level,
              layout         |-> conv.layout,
              stripe_size    |-> (2 ^ vdcr.strip_size) * block_size,
              num_disks      |-> conv.num_disks,
              disk_map       |-> disks,
              order          |-> order,
              sequence_number |-> vdcr.sequence_number]

\* Line 44: vdcr_map.update() per disk, so the record read last stays.
VdcrOf(vdcrs, guid) ==
    LastStored(vdcrs, [i \in 1..Len(vdcrs) |-> vdcrs[i].guid], guid)

\* Lines 58-59: the role map of one virtual disk, from the entries of its
\* records whose reference is that of a supplied disk.
VdPdMap(es, pds, refs) ==
    LET roles == [i \in 1..Len(es) |-> es[i].role]
    IN  [r \in {roles[i] : i \in 1..Len(es)} |->
           LET e  == LastStored(es, roles, r)
               pd == LastStored(pds, refs, e.ref)
           IN  [start |-> e.start,
                disk |-> [id |-> pd.id, offset |-> pd.offset, size |-> pd.size]]]

\* DDFConfiguration.__init__, lines 31-65.
DDFConfiguration(pds) ==
    LET n        == Len(pds)
        refs     == [i \in 1..n |-> pds[i].reference]
        pd_known == {refs[i] : i \in 1..n}
        vdes     == Flatten([i \in 1..n |-> pds[i].virtual_disk_records])
        vdcrs    == Flatten([i \in 1..n |-> pds[i].virtual_disk_configuration_records])
        vde_keys == [i \in 1..Len(vdes) |-> vdes[i].guid]
        uniq_key == [i \in 1..Len(vdcrs) |-> <<vdcrs[i].guid, vdcrs[i].secondary_element_seq>>]
        uniq_order == KeysInOrder(uniq_key, {})
        vdcr_uniq  == [k \in 1..Len(uniq_order) |-> LastStored(vdcrs, uniq_key, uniq_order[k])]
        guids      == KeysInOrder([k \in 1..Len(vdcr_uniq) |-> vdcr_uniq[k].guid], {})
        virtual_disks ==
            [k \in 1..Len(guids) |->
               LET g  == guids[k]
                   es == SelectSeq(
                           Flatten([u \in 1..Len(vdcr_uniq) |->
                                      IF vdcr_uniq[u].guid = g
                                      THEN VdcrEntries(vdcr_uniq[u], 1, 0) ELSE <<>>]),
                           LAMBDA e : e.ref \in pd_known)
               IN  IF g \notin {vde_keys[i] : i \in 1..Len(vdes)} THEN Raise("KeyError")
                   ELSE DDFVirtualDisk(VdcrOf(vdcrs, g), LastStored(vdes, vde_keys, g),
                                       VdPdMap(es, pds, refs),
                                       KeysInOrder([i \in 1..Len(es) |-> es[i].role], {}), pds)]
    IN  IF FirstError(virtual_disks) # "none" THEN Raise(FirstError(virtual_disks))
        ELSE [kind |-> "Configuration", physical_disks |-> pds,
              virtual_disks |-> virtual_disks]

\* DDF.__init__, lines 18-27.
DDFOf(files, sector_size) ==
    LET disks         == [i \in 1..Len(files) |-> DDFPhysicalDisk(files[i], i, sector_size)]
        headers       == KeysInOrder([i \in 1..Len(files) |-> disks[i].header], {})
        config_map(h) == SelectSeq(disks, LAMBDA d : d.header = h)
    IN  RAIDOf([k \in 1..Len(headers) |-> DDFConfiguration(config_map(headers[k]))])

-----------------------------------------------------------------------------
(* Building a RAID object from a list of file-like objects.                *)

NoVd == MkVirtualDisk(RAID1, 0, 2, 2, [r \in 0..1 |-> 4], {0, 1})

AggInit ==
    /\ family \in {"MD", "DDF"}
    /\ fhs = <<>>
    /\ raid = [status |-> "none"]
    /\ vd = NoVd
    /\ stream = Closed
    /\ res = NoRes
    /\ ddfConv = Unused /\ thinDev = Unused /\ lvmLv = Unused /\ diskObj = Unused /\ mdProbe = Unused /\ vinum = Unused

\* The caller adds a file-like object to the list it will pass.
Supply ==
    /\ raid.status = "none"
    /\ Len(fhs) < MaxSupplied
    /\ \E fh \in (IF family = "MD" THEN MDFiles ELSE DDFFiles) : fhs' = Append(fhs, fh)
    /\ UNCHANGED <<family, raid, vd, stream, res, ddfConv, thinDev, lvmLv, diskObj, mdProbe, vinum>>

\* raid = MD(fhs)
MDInit ==
    /\ family = "MD"
    /\ raid.status = "none"
    /\ fhs # <<>>
    /\ raid' = MDOf(fhs)
    /\ UNCHANGED <<family, fhs, vd, stream, res, ddfConv, thinDev, lvmLv, diskObj, mdProbe, vinum>>

\* raid = DDF(fhs)
DDFInit ==
    /\ family = "DDF"
    /\ raid.status = "none"
    /\ fhs # <<>>
    /\ raid' = DDFOf(fhs, DDFSectorSize)
    /\ UNCHANGED <<family, fhs, vd, stream, res, ddfConv, thinDev, lvmLv, diskObj, mdProbe, vinum>>

AggNext == Supply \/ MDInit \/ DDFInit

SpecAgg == AggInit /\ [][AggNext]_vars

-----------------------------------------------------------------------------
(* Claims about the streams, checked under Spec.                           *)

Present == DOMAIN vd.disk_map
Missing == vd.num_disks - Cardinality(Present)

\* C1: the RAID5 table as the specification states it.
C1_Table(layout, n, stripe_size, o) ==
    LET data_disks    == n - 1
        stripe_number == o \div stripe_size
        stripe        == stripe_number \div data_disks
        dd            == stripe_number % data_disks
        left          == data_disks - (stripe % n)
        right         == stripe % n
    IN  CASE layout = LEFT_ASYMMETRIC  -> [ok |-> TRUE, pd |-> left,
                                           dd |-> IF dd >= left THEN dd + 1 ELSE dd]
          [] layout = RIGHT_ASYMMETRIC -> [ok |-> TRUE, pd |-> right,
                                           dd |-> IF dd >= right THEN dd + 1 ELSE dd]
          [] layout = LEFT_SYMMETRIC   -> [ok |-> TRUE, pd |-> left, dd |-> (left + 1 + dd) % n]
          [] layout = RIGHT_SYMMETRIC  -> [ok |-> TRUE, pd |-> right, dd |-> (right + 1 + dd) % n]
          [] layout = PARITY_0         -> [ok |-> TRUE, pd |-> 0, dd |-> dd + 1]
          [] layout = PARITY_N         -> [ok |-> TRUE, pd |-> data_disks, dd |-> dd]
          [] OTHER                     -> [ok |-> FALSE, pd |-> None, dd |-> None]

\* C1: for a RAID5 volume of n >= 2 disks, every layout and every offset,
\* _get_stripe_read_info returns the parity index and the data-disk index of
\* the layout table (LEFT_/RIGHT_ASYMMETRIC, LEFT_/RIGHT_SYMMETRIC, PARITY_0,
\* PARITY_N), and raises the invalid-algorithm error for any other layout.
C1_Raid5StripeInfo ==
    (res.op = "info" /\ vd.level = RAID5) =>
        LET want == C1_Table(vd.layout, vd.num_disks, vd.stripe_size, res.offset)
        IN  IF want.ok
            THEN /\ res.info.err = "none"
                 /\ res.info.pd_idx = want.pd
                 /\ res.info.dd_idx = want.dd
            ELSE res.info.err = "RAIDError: Invalid RAID algorithm"

\* C1 witness: a LEFT_SYMMETRIC RAID5 of 3 disks asked about a stripe row past
\* the first, where the parity has rotated off the last disk.
C1_Witness ==
    /\ res.op = "info" /\ vd.level = RAID5 /\ vd.layout = LEFT_SYMMETRIC
    /\ vd.num_disks = 3 /\ res.info.stripe = 2 /\ res.info.pd_idx = 0
    /\ res.info.dd_idx = 1

\* The concatenation of the single-stripe reads that cover [offset, offset+length).
RECURSIVE SingleStripeReads(_, _, _, _)
SingleStripeReads(st, v, offset, length) ==
    IF length = 0 THEN [status |-> "ok", data |-> <<>>]
    ELSE LET n    == Min(length, v.stripe_size - (offset % v.stripe_size))
             one  == StreamRead(st, v, offset, n)
             rest == SingleStripeReads(st, v, offset + n, length - n)
         IN  IF one.status # "ok" THEN one
             ELSE IF rest.status # "ok" THEN rest
             ELSE [status |-> "ok", data |-> one.data \o rest.data]

SpansStripes == (res.offset \div vd.stripe_size) < ((res.offset + res.length - 1) \div vd.stripe_size)

\* C2: a RAID4/5/6 or RAID10 _read that spans two or more stripes returns
\* exactly the concatenation of the single-stripe reads, length bytes in all.
C2_ReadConcatenatesStripes ==
    (/\ res.op = "read"
     /\ stream.kind \in {"RAID456Stream", "RAID10Stream"}
     /\ SpansStripes) =>
        LET pieces == SingleStripeReads(stream, vd, res.offset, res.length)
        IN  pieces.status = "ok" =>
              /\ res.status = "ok"
              /\ res.data = pieces.data
              /\ Len(res.data) = res.length

\* The contents of an in-sync RAID10 near-copies set: the byte at data
\* position rel of member d belongs to chunk (stripe * raid_disks + d) div
\* near_copies, so the near copies of a chunk hold the same bytes.
DiskByte(v, b) ==
    LET d    == b[1]
        rel  == b[2] - DataOffset
        slot == (rel \div v.stripe_size) * v.num_disks + d
    IN  <<slot \div (v.layout % 256), rel % v.stripe_size>>

Contents(v, data) == [i \in 1..Len(data) |-> DiskByte(v, data[i])]

\* The same set with every member present.
Complete(v) ==
    LET all == [r \in 0..(v.num_disks - 1) |-> Member(r, Stripes * v.stripe_size)]
    IN  [v EXCEPT !.disk_map = all, !.physical_disks = all,
                  !.order = SortedKeys(0..(v.num_disks - 1))]

Near2Of4 == vd.level = RAID10 /\ vd.layout = 258 /\ vd.num_disks = 4

\* The members holding the near copies of the chunk of logical stripe k.
CopiesOf(k) == {(2 * k) % 4, (2 * k + 1) % 4}

\* The logical stripes a read covers.
StripesRead == (res.offset \div vd.stripe_size)..((res.offset + res.length - 1) \div vd.stripe_size)

\* C3: on an MD RAID10 of 4 disks (near=2, far=1) that lacks members but still
\* has one copy of every chunk, every read succeeds and returns the bytes the
\* complete set returns.
C3_Raid10DegradedRead ==
    (/\ Near2Of4 /\ res.op = "read"
     /\ Missing \in {1, 2}
     /\ \A k \in 0..1 : CopiesOf(k) \cap Present # {}) =>
        LET full == StreamRead(VirtualDiskOpen(Complete(vd)), Complete(vd), res.offset, res.length)
        IN  /\ res.status = "ok"
            /\ Contents(vd, res.data) = Contents(vd, full.data)

\* C5: open() of a LINEAR or RAID0 volume raises the missing-disks error
\* unless all num_disks roles are present; open() of a RAID4/5 volume succeeds
\* with at most 1 role missing, of a RAID6 volume with at most 2, and raises
\* the missing-disks error otherwise.
C5_OpenMissingDisks ==
    stream.kind # "closed" =>
        /\ vd.level \in {LINEAR, RAID0} =>
             ((stream = Raise("RAIDError: Missing disks")) <=> Missing # 0)
        /\ vd.level \in {RAID4, RAID5} =>
             IF Missing <= 1 THEN stream.kind = "RAID456Stream"
             ELSE stream = Raise("RAIDError: Missing disks")
        /\ vd.level = RAID6 =>
             IF Missing <= 2 THEN stream.kind = "RAID456Stream"
             ELSE stream = Raise("RAIDError: Missing disks")

\* C6: on an MD RAID10 of 4 disks (near=2, far=1), a read that covers a chunk
\* all of whose copies are on missing members fails with the RAIDError
\* "Unable to find device for offset", never with data or another exception.
C6_Raid10NoCopyError ==
    (/\ Near2Of4 /\ res.op = "read"
     /\ \E k \in StripesRead : CopiesOf(k) \cap Present = {}) =>
        res.status = "RAIDError: Unable to find device for offset"

\* C10: a RAID0 set with all members present, opened over a readable member
\* map, has as many strip zones as
\* distinct rounded member sizes; zone 0 holds all members and ends at
\* rounded(smallest) * num_members; every later zone holds exactly the members
\* whose rounded size exceeds the boundary of the zone before it.
C10_StripZones ==
    (/\ vd.level = RAID0 /\ Missing = 0
     /\ stream.kind # "closed" /\ stream # AttributeError) =>
        LET devs    == DisksInOrder(vd.disk_map)
            ss      == vd.stripe_size
            rounded == {Rounded(devs[i], ss) : i \in 1..Len(devs)}
            least   == CHOOSE x \in rounded : \A y \in rounded : x <= y
        IN  /\ stream.kind = "RAID0Stream"
            /\ Len(stream.zones) = Cardinality(rounded)
            /\ stream.zones[1].zone_end = least * Len(devs)
            /\ DOMAIN stream.zones[1].devices = Present
            /\ \A z \in 2..Len(stream.zones) :
                 stream.zones[z].devices =
                   Pick(devs, {i \in 1..Len(devs) :
                                 Rounded(devs[i], ss) > stream.zones[z].dev_start}, 1)

-----------------------------------------------------------------------------
(* Claims about MD() and DDF(), checked under SpecAgg.                     *)

\* The set identifier of a supplied file-like object.
SetId(fh) == IF family = "MD" THEN fh.sb.set_uuid ELSE fh.sections.header

\* The supplied objects (by position) that configuration c holds.
ConfMembers(c) ==
    {raid.configurations[c].physical_disks[k].id :
        k \in 1..Len(raid.configurations[c].physical_disks)}

\* C4: with all members present, the size of an MD VirtualDisk is the level
\* formula: LINEAR the sum of the member data sizes, RAID0 the sum of the
\* member sizes rounded down to a multiple of stripe_size, RAID4/5
\* (n-1) * member_size, RAID6 (n-2) * member_size.
C4_SizeFormula ==
    (family = "MD" /\ raid.status = "ok") =>
      \A c \in 1..Len(raid.configurations) :
        LET v       == raid.configurations[c].virtual_disks[1]
            n       == v.num_disks
            members == v.disk_map
            sizes   == [r \in DOMAIN members |-> members[r].disk.size]
        IN  (/\ DOMAIN members = 0..(n - 1)
             /\ Len(raid.configurations[c].physical_disks) = n) =>
              /\ v.level = LINEAR => v.size = SumOver(sizes, DOMAIN sizes)
              /\ (v.level = RAID0 /\ v.stripe_size > 0) =>
                   v.size = SumOver([r \in DOMAIN sizes |->
                                       (sizes[r] \div v.stripe_size) * v.stripe_size],
                                    DOMAIN sizes)
              /\ (v.level \in {RAID4, RAID5} /\ \A r \in DOMAIN sizes : sizes[r] = sizes[0]) =>
                   v.size = (n - 1) * sizes[0]
              /\ (v.level = RAID6 /\ \A r \in DOMAIN sizes : sizes[r] = sizes[0]) =>
                   v.size = (n - 2) * sizes[0]

\* C7: MD() and DDF() produce exactly one Configuration per distinct set
\* identifier on the supplied disks: every supplied disk is in exactly one
\* Configuration, and two disks share a Configuration iff their set
\* identifiers are equal.
C7_OneConfigurationPerSet ==
    raid.status = "ok" =>
      LET confs == 1..Len(raid.configurations)
          disks == 1..Len(fhs)
      IN  /\ Len(raid.configurations) = Cardinality({SetId(fhs[i]) : i \in disks})
          /\ \A i \in disks : Cardinality({c \in confs : i \in ConfMembers(c)}) = 1
          /\ \A c \in confs :
               Len(raid.configurations[c].physical_disks) = Cardinality(ConfMembers(c))
          /\ \A i, j \in disks :
               (\E c \in confs : {i, j} \subseteq ConfMembers(c))
                 <=> SetId(fhs[i]) = SetId(fhs[j])

\* C7 witness: three disks of two sets were supplied, two of them of one
\* set, and two configurations were produced.
C7_Witness ==
    /\ raid.status = "ok"
    /\ Len(fhs) = 3
    /\ SetId(fhs[1]) = SetId(fhs[3]) /\ SetId(fhs[1]) # SetId(fhs[2])
    /\ Len(raid.configurations) = 2
    /\ ConfMembers(1) = {1, 3}

\* C8: the level, layout, stripe size, raid_disks and name of an MD
\* VirtualDisk are those of a supplied member of the set whose events
\* counter is maximal among the set's supplied members, whatever the order of
\* the disks.
C8_ReferenceHasMaxEvents ==
    (family = "MD" /\ raid.status = "ok") =>
      \A c \in 1..Len(raid.configurations) :
        LET v    == raid.configurations[c].virtual_disks[1]
            mine == {i \in 1..Len(fhs) : fhs[i].sb.set_uuid = v.uuid}
        IN  \E i \in mine :
              /\ \A j \in mine : fhs[j].sb.events <= fhs[i].sb.events
              /\ v.level = fhs[i].sb.level
              /\ v.layout = fhs[i].sb.layout
              /\ v.stripe_size = fhs[i].sb.chunksize * SECTOR_SIZE
              /\ v.num_disks = fhs[i].sb.raid_disks
              /\ v.name = fhs[i].sb.set_name

\* C8 witness: two members of one set, the one with the higher events
\* counter in the higher role and supplied first; the VirtualDisk carries
\* its name.
C8_Witness ==
    /\ family = "MD" /\ raid.status = "ok"
    /\ Len(fhs) = 2
    /\ fhs[1].sb.set_uuid = fhs[2].sb.set_uuid
    /\ fhs[1].sb.events > fhs[2].sb.events
    /\ fhs[1].role = 1 /\ fhs[2].role = 0
    /\ raid.configurations[1].virtual_disks[1].name = fhs[1].sb.set_name

\* C9: the VD configuration record a DDF VirtualDisk is built from is the
\* one with the highest sequence_number among the records for its VD GUID on
\* the supplied disks of the set, whatever the order of the disks.
C9_HighestSequenceNumber ==
    (family = "DDF" /\ raid.status = "ok") =>
      \A c \in 1..Len(raid.configurations) :
        \A k \in 1..Len(raid.configurations[c].virtual_disks) :
          LET v    == raid.configurations[c].virtual_disks[k]
              recs == {fhs[i].sections.vdcr : i \in ConfMembers(c)}
          IN  \A r \in recs : r.guid = v.uuid => r.sequence_number <= v.sequence_number

\* C11: a RAID6 volume with a DDF layout (ROTATING_ZERO_RESTART,
\* ROTATING_N_RESTART, ROTATING_N_CONTINUE) and all members present can be
\* opened and read: every read in range returns bytes, the first of them from
\* a member of the set.
C11_DdfRaid6Read ==
    (/\ vd.level = RAID6
     /\ vd.layout \in {ROTATING_ZERO_RESTART, ROTATING_N_RESTART, ROTATING_N_CONTINUE}
     /\ Missing = 0
     /\ res.op = "read") =>
        /\ stream.kind = "RAID456Stream"
        /\ res.status = "ok"
        /\ Len(res.data) >= 1
        /\ res.data[1][1] \in Present

-----------------------------------------------------------------------------
(* _convert_raid_layout (ddf.py 290-377) called on its own, for every      *)
(* combination of primary level, qualifier, secondary level and element    *)
(* counts within the bounds.                                               *)

MaxPec == 4      \* primary_element_count ranges over 1..MaxPec
MaxSec == 2      \* secondary_element_count ranges over 1..MaxSec
MaxRlq == 4      \* raid_level_qualifier ranges over 0..MaxRlq

DDF_VDCR_RAID3     == 3
DDF_VDCR_2MIRRORED == 1

\* The primary and secondary RAID levels of c_ddf.py a record can carry.
PrimaryLevels   == {DDF_VDCR_RAID0, DDF_VDCR_RAID1, DDF_VDCR_RAID3, DDF_VDCR_RAID4,
                    DDF_VDCR_RAID5, DDF_VDCR_RAID6, DDF_VDCR_RAID1E, DDF_VDCR_CONCAT}
SecondaryLevels == {DDF_VDCR_2STRIPED, DDF_VDCR_2MIRRORED, DDF_VDCR_2SPANNED}

RaidUnused ==
    /\ vd = NoVd /\ stream = Closed /\ res = NoRes
    /\ family = "none" /\ fhs = <<>> /\ raid = [status |-> "none"]

\* The arguments of a call that has not been made yet.
ConvInit ==
    /\ \E prl \in PrimaryLevels, rlq \in 0..MaxRlq, srl \in SecondaryLevels,
          pec \in 1..MaxPec, sec \in 1..MaxSec :
         ddfConv = [op |-> "args", prl |-> prl, rlq |-> rlq, srl |-> srl,
                 pec |-> pec, sec |-> sec, out |-> Raise("none")]
    /\ RaidUnused
    /\ thinDev = Unused /\ lvmLv = Unused /\ diskObj = Unused /\ mdProbe = Unused /\ vinum = Unused

\* _convert_raid_layout(prl, rlq, srl, pec, sec)
Convert ==
    /\ ddfConv.op = "args"
    /\ ddfConv' = [ddfConv EXCEPT !.op = "convert",
                            !.out = ConvertRaidLayout(ddfConv.prl, ddfConv.rlq, ddfConv.srl,
                                                      ddfConv.pec, ddfConv.sec)]
    /\ UNCHANGED <<raidVars, thinDev, lvmLv, diskObj, mdProbe, vinum>>

ConvNext == Convert

SpecConv == ConvInit /\ [][ConvNext]_vars

\* C12: a call of _convert_raid_layout either raises ValueError or returns a
\* level, a layout and a disk count where the layout is defined whenever the
\* level is RAID5, RAID6 or RAID10; RAID5 with qualifier 0/2/3 gives
\* RIGHT_ASYMMETRIC/LEFT_ASYMMETRIC/LEFT_SYMMETRIC, RAID6 with qualifier 1/2/3
\* gives ROTATING_ZERO_RESTART/ROTATING_N_RESTART/ROTATING_N_CONTINUE, and
\* the disk count is PEC * SEC when SEC > 1 and PEC otherwise.
C12_ConvertRaidLayout ==
    ddfConv.op = "convert" =>
      LET out == ddfConv.out
      IN  \/ /\ out.kind = "error"
             /\ out.err \in {"ValueError: Unsupported secondary RAID level",
                             "ValueError: Unsupported DDF RAID0 layout",
                             "ValueError: Unsupported DDF RAID1 layout",
                             "ValueError: Unsupported DDF RAID1E layout",
                             "ValueError: Unsupported DDF RAID4 layout",
                             "ValueError: Unsupported DDF RAID5 layout",
                             "ValueError: Unsupported DDF RAID6 layout",
                             "ValueError: Unsupported DDF RAID layout"}
          \/ /\ out.kind = "ok"
             /\ out.level \in Levels
             /\ out.level \in {RAID5, RAID6, RAID10} => out.layout # None
             /\ (ddfConv.sec = 1 /\ ddfConv.prl = DDF_VDCR_RAID5 /\ ddfConv.rlq \in {0, 2, 3}) =>
                  /\ out.level = RAID5
                  /\ out.layout = CASE ddfConv.rlq = 0 -> RIGHT_ASYMMETRIC
                                    [] ddfConv.rlq = 2 -> LEFT_ASYMMETRIC
                                    [] ddfConv.rlq = 3 -> LEFT_SYMMETRIC
             /\ (ddfConv.sec = 1 /\ ddfConv.prl = DDF_VDCR_RAID6 /\ ddfConv.rlq \in {1, 2, 3}) =>
                  /\ out.level = RAID6
                  /\ out.layout = CASE ddfConv.rlq = 1 -> ROTATING_ZERO_RESTART
                                    [] ddfConv.rlq = 2 -> ROTATING_N_RESTART
                                    [] ddfConv.rlq = 3 -> ROTATING_N_CONTINUE
             /\ out.num_disks = IF ddfConv.sec > 1 THEN ddfConv.pec * ddfConv.sec ELSE ddfConv.pec

-----------------------------------------------------------------------------
(* The device-mapper B-tree of dm/btree.py.  A metadata device is a        *)
(* sequence of blocks; a block read as a Node is its header fields and its *)
(* key and value areas, sequences of bytes.  A lookup returns a value, None *)
(* or the exception raised; a walk that never returns is reported as       *)
(* "hang".                                                                 *)

MaxEntries == 3      \* max_entries of every modelled node
KeySize    == 8      \* bytes of a key
INTERNAL_NODE == 1
LEAF_NODE     == 2

\* buf[a:b] of Python on a sequence of bytes: negative indices count from
\* the end, indices are clipped to the sequence, an empty range gives b"".
PySlice(buf, a, b) ==
    LET n     == Len(buf)
        Clip(i) == IF i < 0 THEN (IF i + n < 0 THEN 0 ELSE i + n) ELSE Min(i, n)
        lo    == Clip(a)
        hi    == Clip(b)
    IN  IF hi <= lo THEN <<>> ELSE SubSeq(buf, lo + 1, hi)

\* int.from_bytes(buf, "little")
RECURSIVE FromBytesLE(_)
FromBytesLE(buf) == IF buf = <<>> THEN 0 ELSE Head(buf) + 256 * FromBytesLE(Tail(buf))

\* n.to_bytes(size, "little")
RECURSIVE ToBytesLE(_, _)
ToBytesLE(n, size) == IF size = 0 THEN <<>> ELSE <<n % 256>> \o ToBytesLE(n \div 256, size - 1)

\* Node.__init__, lines 67-83: the header and the two areas of a block that
\* stores the given keys and values (values are byte strings of value_size).
MkNode(flags, value_size, keys, values) ==
    [flags       |-> flags,
     num_entries |-> Len(keys),
     max_entries |-> MaxEntries,
     value_size  |-> value_size,
     key_area    |-> Flatten([i \in 1..MaxEntries |->
                        IF i <= Len(keys) THEN ToBytesLE(keys[i], KeySize)
                        ELSE ToBytesLE(0, KeySize)]),
     value_area  |-> Flatten([i \in 1..MaxEntries |->
                        IF i <= Len(values) THEN values[i]
                        ELSE ToBytesLE(0, value_size)])]

\* Node.is_internal / Node.is_leaf, lines 85-91.
IsInternal(node) == BitAnd(node.flags, INTERNAL_NODE) # 0
IsLeaf(node)     == BitAnd(node.flags, LEAF_NODE) # 0

\* Node.key, lines 93-97.
NodeKey(node, idx) ==
    IF idx >= node.num_entries THEN Raise("IndexError: Key index out of bounds")
    ELSE [kind |-> "ok", key |-> FromBytesLE(PySlice(node.key_area, idx * 8, idx * 8 + 8))]

\* Node.value, lines 99-103.
NodeValue(node, idx) ==
    IF idx >= node.num_entries THEN Raise("IndexError: Value index out of bounds")
    ELSE [kind |-> "ok",
          value |-> PySlice(node.value_area, idx * node.value_size,
                            idx * node.value_size + node.value_size)]

\* The binary search of BTree._lookup, lines 43-58.
RECURSIVE BSearch(_, _, _, _, _)
BSearch(node, key, want_high, low, high) ==
    IF high - low > 1
    THEN LET mid     == low + ((high - low) \div 2)
             cmp_key == NodeKey(node, mid).key
         IN  IF cmp_key = key THEN mid
             ELSE IF cmp_key < key THEN BSearch(node, key, want_high, mid, high)
             ELSE BSearch(node, key, want_high, low, mid)
    ELSE IF want_high THEN high ELSE low

\* BTree._read_node, lines 18-20, on a metadata device of Len(blocks) blocks
\* (block b is blocks[b + 1]): seek() refuses a negative position, and a read
\* past the end gives no bytes for the node header to be parsed from.
ReadNode(blocks, block) ==
    IF block < 0 THEN Raise("ValueError: negative seek value")
    ELSE IF block >= Len(blocks) THEN Raise("EOFError")
    ELSE [kind |-> "ok", node |-> blocks[block + 1]]

\* BTree._lookup, lines 38-63.  The walk is deterministic, so one that has
\* taken more steps than there are blocks never ends.
RECURSIVE BTreeLookup1(_, _, _, _, _)
BTreeLookup1(blocks, block, key, want_high, steps) ==
    LET rd == ReadNode(blocks, block)
    IN  IF rd.kind = "error" THEN rd
        ELSE IF steps > Len(blocks) THEN Raise("hang")
        ELSE
        LET node   == rd.node
            result == BSearch(node, key, want_high, -1, node.num_entries)
        IN  IF IsInternal(node)
            THEN BTreeLookup1(blocks, result, key, want_high, steps + 1)
            ELSE IF IsLeaf(node)
            THEN LET k == NodeKey(node, result)
                     v == NodeValue(node, result)
                 IN  IF k.kind = "error" THEN k
                     ELSE [kind |-> "ok", key |-> k.key, value |-> v.value]
            ELSE Raise("hang")

\* BTree.lookup, lines 22-36: [kind |-> "value", value |-> bytes],
\* [kind |-> "None"] or the error.
RECURSIVE BTreeLookup(_, _, _, _)
BTreeLookup(blocks, root, keys, want_high) ==
    LET r == BTreeLookup1(blocks, root, Head(keys), want_high, 0)
    IN  IF r.kind = "error" THEN r
        ELSE IF r.key # Head(keys) THEN [kind |-> "None"]
        ELSE IF Len(keys) > 1
        THEN BTreeLookup(blocks, FromBytesLE(r.value), Tail(keys), want_high)
        ELSE [kind |-> "value", value |-> r.value]

-----------------------------------------------------------------------------
(* The thin pool and thin device of dm/thin.py.  Lengths and offsets are   *)
(* counted in sectors of SECTOR_SIZE bytes, so block_size is the           *)
(* superblock's data_block_size; the sector at position p of the data      *)
(* device is the pair <<DataFh, p>> and a sector of zero bytes is          *)
(* ZeroSector.                                                             *)

MaxHint       == 5     \* size hints range over 0..MaxHint sectors, or None
MaxThinBlock  == 4     \* _read starts at blocks 0..MaxThinBlock
MaxThinLength == 2     \* _read asks for 1..MaxThinLength blocks
MaxDeviceId   == 2     \* device ids range over 0..MaxDeviceId

DataFh     == 0
ZeroSector == <<None, None>>
TimeShift  == 16777216     \* 1 << 24

DetailsSize == 24      \* len(c_dm.disk_device_details)
ValueSize   == 8       \* a block-time value, or the root of a mapping tree

\* The block-time value stored for a data block, and a device details record.
BlockTime(data_block, time) == ToBytesLE(data_block * TimeShift + time, ValueSize)
Details(mapped_blocks)      == ToBytesLE(mapped_blocks, DetailsSize)
Root(block)                 == ToBytesLE(block, ValueSize)

\* Block 0 of a metadata device, the superblock, read as a Node: the header
\* fields overlay csum, flags, blocknr and the uuid, all zero here.
SuperNode ==
    [flags |-> 0, num_entries |-> 0, max_entries |-> 0, value_size |-> 0,
     key_area |-> <<>>, value_area |-> <<>>]

\* Metadata(fh), lines 36-46, of four pools.
\*  "sparse": one device, 0, with block 2 mapped alone;
\*  "empty":  one device, 0, with no block mapped;
\*  "two":    devices 0 and 1; the mapping tree of device 1 has an internal
\*            root over two leaves.
\*  "noflags": one device, 0, whose mapping tree is a node with neither the
\*            INTERNAL_NODE nor the LEAF_NODE flag.
ThinImages ==
    { [name |-> "sparse", data_block_size |-> 2, data_blocks |-> 1,
       device_details_root |-> 1, data_mapping_root |-> 2,
       blocks |-> << SuperNode,
                     MkNode(LEAF_NODE, DetailsSize, <<0>>, <<Details(1)>>),
                     MkNode(LEAF_NODE, ValueSize, <<0>>, <<Root(3)>>),
                     MkNode(LEAF_NODE, ValueSize, <<2>>, <<BlockTime(0, 1)>>) >>],
      [name |-> "empty", data_block_size |-> 2, data_blocks |-> 1,
       device_details_root |-> 1, data_mapping_root |-> 2,
       blocks |-> << SuperNode,
                     MkNode(LEAF_NODE, DetailsSize, <<0>>, <<Details(0)>>),
                     MkNode(LEAF_NODE, ValueSize, <<0>>, <<Root(3)>>),
                     MkNode(LEAF_NODE, ValueSize, <<>>, <<>>) >>],
      [name |-> "two", data_block_size |-> 1, data_blocks |-> 4,
       device_details_root |-> 2, data_mapping_root |-> 3,
       blocks |-> << SuperNode,
                     MkNode(LEAF_NODE, ValueSize, <<0, 1>>, <<BlockTime(0, 1), BlockTime(1, 1)>>),
                     MkNode(LEAF_NODE, DetailsSize, <<0, 1>>, <<Details(2), Details(4)>>),
                     MkNode(LEAF_NODE, ValueSize, <<0, 1>>, <<Root(1), Root(4)>>),
                     MkNode(INTERNAL_NODE, ValueSize, <<0, 2>>, <<Root(5), Root(6)>>),
                     MkNode(LEAF_NODE, ValueSize, <<0, 1>>, <<BlockTime(2, 2), BlockTime(3, 2)>>),
                     MkNode(LEAF_NODE, ValueSize, <<2, 3>>, <<BlockTime(1, 3), BlockTime(0, 3)>>) >>],
      [name |-> "noflags", data_block_size |-> 2, data_blocks |-> 1,
       device_details_root |-> 1, data_mapping_root |-> 2,
       blocks |-> << SuperNode,
                     MkNode(LEAF_NODE, DetailsSize, <<0>>, <<Details(1)>>),
                     MkNode(LEAF_NODE, ValueSize, <<0>>, <<Root(3)>>),
                     MkNode(0, ValueSize, <<0>>, <<BlockTime(0, 1)>>) >>] }

\* _unpack_block_time, lines 100-108: the block number.
UnpackBlock(block_time) == block_time \div TimeShift

\* ThinDevice.__init__, lines 58-68.
ThinDeviceInit(img, device_id) ==
    LET details_buf == BTreeLookup(img.blocks, img.device_details_root, <<device_id>>, FALSE)
    IN  IF details_buf.kind = "error" THEN details_buf
        ELSE IF details_buf.kind = "None" \/ details_buf.value = <<>>
        THEN Raise("DMError: Device ID is not known in pool")
        ELSE IF Len(details_buf.value) < DetailsSize THEN Raise("EOFError")
        ELSE [kind |-> "ok"]

Zeros(n) == [i \in 1..n |-> ZeroSector]

\* ThinDevice._read, lines 70-97, from the block of the offset on.
RECURSIVE ThinDeviceRead(_, _, _, _, _, _, _)
ThinDeviceRead(img, device_id, size, block, offset, length, result) ==
    IF length <= 0 THEN [kind |-> "ok", data |-> result]
    ELSE
    LET block_size == img.data_block_size
        block_info == BTreeLookup(img.blocks, img.data_mapping_root, <<device_id, block>>, FALSE)
    IN  IF block_info.kind = "error" THEN block_info
        ELSE IF block_info.kind = "None"
        THEN LET remaining == IF size = None THEN length ELSE size - offset
             IN  IF size = None \/ remaining > 0
                 THEN [kind |-> "ok", data |-> Zeros(Min(length, remaining))]
                 ELSE [kind |-> "ok", data |-> result]
        ELSE
        LET data_block == UnpackBlock(FromBytesLE(block_info.value))
            read_size  == Min(length, block_size)
        IN  ThinDeviceRead(img, device_id, size, block + 1, offset + read_size,
                           length - read_size,
                           result \o FhRead(DataFh, img.data_blocks * block_size,
                                            data_block * block_size, read_size))

\* A pool and the arguments of pool.open(device_id, size_hint).
ThinInit ==
    /\ \E img \in ThinImages, device_id \in 0..MaxDeviceId, size \in {None} \cup 0..MaxHint :
         thinDev = [op |-> "closed", img |-> img, device_id |-> device_id, size |-> size,
                    opened |-> Raise("none"), offset |-> 0, length |-> 0,
                    keys |-> <<>>, want_high |-> FALSE, out |-> Raise("none")]
    /\ RaidUnused
    /\ ddfConv = Unused /\ lvmLv = Unused /\ diskObj = Unused /\ mdProbe = Unused /\ vinum = Unused

\* pool.open(device_id, size_hint)
ThinOpen ==
    /\ thinDev.op = "closed"
    /\ thinDev' = [thinDev EXCEPT !.op = "open",
                                  !.opened = ThinDeviceInit(thinDev.img, thinDev.device_id)]
    /\ UNCHANGED <<raidVars, ddfConv, lvmLv, diskObj, mdProbe, vinum>>

\* dev._read(offset, length), called by the aligned stream with a multiple of
\* block_size as offset and as length.
ThinRead ==
    /\ thinDev.op = "open"
    /\ thinDev.opened.kind = "ok"
    /\ \E block \in 0..MaxThinBlock, n \in 1..MaxThinLength :
         LET bs == thinDev.img.data_block_size
         IN  thinDev' = [thinDev EXCEPT
                           !.op = "read", !.offset = block * bs, !.length = n * bs,
                           !.out = ThinDeviceRead(thinDev.img, thinDev.device_id, thinDev.size,
                                                  block, block * bs, n * bs, <<>>)]
    /\ UNCHANGED <<raidVars, ddfConv, lvmLv, diskObj, mdProbe, vinum>>

\* pool.metadata.data_mapping.lookup(keys, want_high)
ThinLookup ==
    /\ thinDev.op = "closed"
    /\ \E keys \in {<<d>> : d \in 0..MaxDeviceId}
                   \cup {<<d, b>> : d \in 0..MaxDeviceId, b \in 0..MaxThinBlock},
          want_high \in BOOLEAN :
         thinDev' = [thinDev EXCEPT
                       !.op = "lookup", !.keys = keys, !.want_high = want_high,
                       !.out = BTreeLookup(thinDev.img.blocks, thinDev.img.data_mapping_root,
                                           keys, want_high)]
    /\ UNCHANGED <<raidVars, ddfConv, lvmLv, diskObj, mdProbe, vinum>>

ThinNext == ThinOpen \/ ThinRead \/ ThinLookup

SpecThin == ThinInit /\ [][ThinNext]_vars

-----------------------------------------------------------------------------
(* Claims about the B-tree and the thin device, checked under SpecThin.    *)

\* The entries of a node: index i holds the key and the value stored at
\* slot i of the two areas.
EntryKey(node, i)   == FromBytesLE(SubSeq(node.key_area, KeySize * i + 1, KeySize * i + KeySize))
EntryValue(node, i) == SubSeq(node.value_area, node.value_size * i + 1,
                              node.value_size * i + node.value_size)

\* The value stored under exactly this key in the tree rooted at block: on
\* an internal node the entry with the greatest key not above the key is
\* selected and its value is the number of the block to continue in.
RECURSIVE TreeGet(_, _, _)
TreeGet(blocks, block, key) ==
    LET node == blocks[block + 1]
        at   == {i \in 0..(node.num_entries - 1) : EntryKey(node, i) <= key}
    IN  IF at = {} THEN [kind |-> "None"]
        ELSE LET i == CHOOSE j \in at : \A k \in at : k <= j
             IN  IF IsInternal(node)
                 THEN TreeGet(blocks, FromBytesLE(EntryValue(node, i)), key)
                 ELSE IF EntryKey(node, i) = key
                 THEN [kind |-> "value", value |-> EntryValue(node, i)]
                 ELSE [kind |-> "None"]

RECURSIVE TreeLookup(_, _, _)
TreeLookup(blocks, root, keys) ==
    LET r == TreeGet(blocks, root, Head(keys))
    IN  IF r.kind = "None" \/ Len(keys) = 1 THEN r
        ELSE TreeLookup(blocks, FromBytesLE(r.value), Tail(keys))

\* C20: BTree.lookup(keys) returns the value stored in the leaf under exactly
\* the given key at every key level, continuing from an internal node in the
\* block its selected entry names, and returns None whenever the exact key is
\* absent, a key below every key of the node included.
C20_LookupExactKey ==
    (thinDev.op = "lookup" /\ ~thinDev.want_high) =>
        thinDev.out = TreeLookup(thinDev.img.blocks, thinDev.img.data_mapping_root,
                                 thinDev.keys)

\* The data block the mapping of the device holds for a block, if any.
MappingOf(block) ==
    TreeLookup(thinDev.img.blocks, thinDev.img.data_mapping_root,
               <<thinDev.device_id, block>>)

FirstBlock == thinDev.offset \div thinDev.img.data_block_size

\* C13: on a thin device opened with a size hint, a read that starts in an
\* unmapped block within the hint returns only zeros, no more than the hint
\* leaves, and a read that starts in an unmapped block at or beyond the hint
\* returns no bytes.
C13_HintedSparseRead ==
    (/\ thinDev.op = "read" /\ thinDev.size # None
     /\ MappingOf(FirstBlock).kind = "None") =>
        /\ thinDev.out.kind = "ok"
        /\ thinDev.out.data =
             IF thinDev.offset < thinDev.size
             THEN Zeros(Min(thinDev.length, thinDev.size - thinDev.offset))
             ELSE <<>>

\* C14: on a thin device opened without a size hint, a read that starts in
\* an unmapped block returns zeros of the full requested length, however far
\* the block lies beyond the mapped blocks and the data device, and a read of
\* one mapped block returns the sectors of its data block.
C14_UnhintedRead ==
    (thinDev.op = "read" /\ thinDev.size = None) =>
        LET m  == MappingOf(FirstBlock)
            bs == thinDev.img.data_block_size
        IN  /\ m.kind = "None" =>
                 thinDev.out = [kind |-> "ok", data |-> Zeros(thinDev.length)]
            /\ (m.kind = "value" /\ thinDev.length = bs) =>
                 thinDev.out = [kind |-> "ok",
                                data |-> [i \in 1..bs |->
                                   <<DataFh, UnpackBlock(FromBytesLE(m.value)) * bs + i - 1>>]]

-----------------------------------------------------------------------------
(* The logical volumes of lvm/metadata.py (and lvm/segment.py):           *)
(* LogicalVolume.open(), the open() of the segment classes and the cached  *)
(* ThinPoolSegment.open_pool().  A volume group holds the pool volume      *)
(* "data", whose segment names its metadata and data volumes, two thin     *)
(* volumes of the pool, striped and linear volumes, mirrors and a          *)
(* snapshot.  A ThinPool instance is numbered by its creation.  The record *)
(* l of a volume group carries the open_pool cache of the pool segment and *)
(* the result of the last call in out; every operator returns the record   *)
(* as its call leaves it.                                                  *)

MaxCalls == 3        \* calls made on the volumes of the group

LvNames == {"data", "data_tmeta", "data_tdata", "gone"}

\* volume_group.physical_volumes: whether PhysicalVolume.dev is a device
\* (metadata.py 130-132); no device was attached for pv1.
PhysicalVolumes == [pv \in {"pv0", "pv1"} |-> pv = "pv0"]

\* volume_group.logical_volumes: the segments of each volume, of the class
\* SEGMENT_CLASS_MAP gives their type (metadata.py 280-321).
LogicalVolumes ==
    LET Striped(type, pvs) == [type |-> type, stripes |-> pvs]
        Thin(device_id)    == [type |-> "thin", thin_pool |-> "data", device_id |-> device_id]
        Mirror(lvs)        == [type |-> "mirror", mirrors |-> lvs]
    IN  [n \in {"data", "data_tmeta", "data_tdata", "lv-1", "lv-2", "linear", "lost",
                "mirror", "nomirror", "snap"} |->
           CASE n = "data"     -> <<[type |-> "thin-pool"]>>
             [] n = "lv-1"     -> <<Thin(1)>>
             [] n = "lv-2"     -> <<Thin(2)>>
             [] n = "linear"   -> <<Striped("linear", <<"pv0">>), Striped("linear", <<"pv0">>)>>
             [] n = "lost"     -> <<Striped("striped", <<"pv0", "pv1">>)>>
             [] n = "mirror"   -> <<Mirror(<<"lost", "lv-1", "linear">>)>>
             [] n = "nomirror" -> <<Mirror(<<"gone", "lost">>)>>
             [] n = "snap"     -> <<Striped("linear", <<"pv0">>), [type |-> "snapshot"]>>
             [] OTHER          -> <<Striped("striped", <<"pv0">>)>>]

RECURSIVE LogicalVolumeOpen(_, _)

\* lvs[name].open()
OpenNamed(name, l) ==
    IF name \notin DOMAIN LogicalVolumes THEN [l EXCEPT !.out = Raise("KeyError")]
    ELSE LogicalVolumeOpen(name, l)

\* ThinPoolSegment.open_pool without its cache, metadata.py 439-441:
\* ThinPool(lvs[self.metadata].open(), lvs[self.pool].open()); Metadata()
\* rejects a metadata stream without the superblock magic (thin.py 39-40).
NewThinPool(l) ==
    LET ThinPool(m, d) ==        \* m, d: the group after each of the two open()
            IF m.out.kind = "error" THEN m
            ELSE IF d.out.kind = "error" THEN d
            ELSE IF ~(l.metadata = "data_tmeta" /\ l.magic_ok)
            THEN [d EXCEPT !.out = Raise("DMError: Invalid magic for thin-pool metadata superblock")]
            ELSE [d EXCEPT !.out = [kind |-> "ok", pool |-> [id |-> d.created + 1,
                                                             metadata_fh |-> m.out.stream,
                                                             data_fh |-> d.out.stream]],
                           !.created = @ + 1]
        Then(m) == ThinPool(m, IF m.out.kind = "error" THEN m ELSE OpenNamed(l.pool, m))
    IN  Then(OpenNamed(l.metadata, l))

\* open_pool that builds a pool at every call.
OpenPoolUncached(l) == NewThinPool(l)

\* self.open_pool = cache(self.open_pool), metadata.py 433-434: the first
\* call that returns stores its result; a call that raises stores nothing.
OpenPoolCached(l) ==
    LET Store(r) == [r EXCEPT !.cache = IF r.out.kind = "ok" THEN r.out ELSE @]
    IN  IF l.cache.kind = "ok" THEN [l EXCEPT !.out = l.cache]
        ELSE Store(NewThinPool(l))

\* StripedSegment.open, metadata.py 336-360: the stream over the stripes, or
\* the error of the first stripe whose physical volume cannot be opened.
StripedSegmentOpen(segment, l) ==
    LET stripes == segment.stripes
        failed  == {i \in 1..Len(stripes) :
                      stripes[i] \notin DOMAIN PhysicalVolumes \/ ~PhysicalVolumes[stripes[i]]}
        first   == stripes[CHOOSE i \in failed : \A k \in failed : i <= k]
    IN  IF failed = {}
        THEN [l EXCEPT !.out = [kind |-> "ok", stream |-> "MappingStream", stripes |-> stripes]]
        ELSE IF first \notin DOMAIN PhysicalVolumes THEN [l EXCEPT !.out = Raise("KeyError")]
        ELSE [l EXCEPT !.out = Raise("LVM2Error: Physical volume not found")
                               @@ [pv_name |-> first]]

\* MirrorSegment.open, metadata.py 376-385: the first mirror that opens; the
\* exception of a mirror that does not open is dropped.
RECURSIVE MirrorSegmentOpen(_, _)
MirrorSegmentOpen(mirrors, l) ==
    IF mirrors = <<>> THEN [l EXCEPT !.out = Raise("LVM2Error: No mirrors available")]
    ELSE LET Try(r) == IF r.out.kind = "ok" THEN r ELSE MirrorSegmentOpen(Tail(mirrors), r)
         IN  Try(OpenNamed(Head(mirrors), l))

\* ThinSegment.open, metadata.py 413-419, with ThinDevice.__init__
\* (thin.py 59-69).
ThinSegmentOpen(segment, l) ==
    IF segment.thin_pool \notin DOMAIN LogicalVolumes
    THEN [l EXCEPT !.out = Raise("KeyError")]
    ELSE IF LogicalVolumes[segment.thin_pool][1].type # "thin-pool"
    THEN [l EXCEPT !.out = Raise("AttributeError: open_pool")]
    ELSE LET Open_(p) ==         \* p: the group after open_pool()
                 IF p.out.kind = "error" THEN p
                 ELSE IF segment.device_id \notin l.devices
                 THEN [p EXCEPT !.out = Raise("DMError: Device ID is not known in pool")]
                 ELSE [p EXCEPT !.out = [kind |-> "ok", stream |-> "ThinDevice",
                                         pool |-> p.out.pool,
                                         device_id |-> segment.device_id]]
         IN  Open_(OpenPoolCached(l))

\* segment.open() by the class SEGMENT_CLASS_MAP gives the type of the
\* segment; ThinPoolSegment.open (436-437) and Segment.open (275-276) raise.
SegmentOpen(segment, l) ==
    IF segment.type \in {"linear", "striped"} THEN StripedSegmentOpen(segment, l)
    ELSE IF segment.type = "mirror" THEN MirrorSegmentOpen(segment.mirrors, l)
    ELSE IF segment.type = "thin" THEN ThinSegmentOpen(segment, l)
    ELSE IF segment.type = "thin-pool"
    THEN [l EXCEPT !.out = Raise("RuntimeError: Opening a thin-pool for reading is not possible, use open_pool() instead")]
    ELSE [l EXCEPT !.out = Raise("NotImplementedError")]

\* LogicalVolume.open, metadata.py 187-194, from segment i on: the stream over
\* the segments of the volume, or the error of the first segment that cannot
\* be opened; added holds the streams of the segments before i.
RECURSIVE AddSegments(_, _, _, _)
AddSegments(name, i, added, l) ==
    IF i > Len(LogicalVolumes[name])
    THEN [l EXCEPT !.out = [kind |-> "ok", stream |-> name, segments |-> added]]
    ELSE LET Add(r) == IF r.out.kind = "error" THEN r
                       ELSE AddSegments(name, i + 1, Append(added, r.out), r)
         IN  Add(SegmentOpen(LogicalVolumes[name][i], l))

LogicalVolumeOpen(name, l) == AddSegments(name, 1, <<>>, l)

\* The metadata of a volume group: the names the thin-pool segment carries,
\* whether the metadata volume starts with a thin superblock, and the device
\* ids its device details tree knows.
LvmInit ==
    /\ \E metadata \in LvNames, pool \in LvNames, magic_ok \in BOOLEAN,
          devices \in SUBSET {1, 2} :
         lvmLv = [op |-> "none", name |-> "none", metadata |-> metadata, pool |-> pool,
                  magic_ok |-> magic_ok, devices |-> devices,
                  cache |-> Raise("none"), created |-> 0, calls |-> 0,
                  returned |-> <<>>, out |-> Raise("none")]
    /\ RaidUnused
    /\ ddfConv = Unused /\ thinDev = Unused /\ diskObj = Unused /\ mdProbe = Unused /\ vinum = Unused

\* lvm.vg.logical_volumes[name].open()
LvOpen ==
    /\ lvmLv.calls < MaxCalls
    /\ \E name \in DOMAIN LogicalVolumes :
         lvmLv' = [LogicalVolumeOpen(name, lvmLv) EXCEPT !.op = "open", !.name = name,
                                                         !.calls = @ + 1]
    /\ UNCHANGED <<raidVars, ddfConv, thinDev, diskObj, mdProbe, vinum>>

\* lvm.vg.logical_volumes["data"].segments[0].open_pool()
LvOpenPool ==
    /\ lvmLv.calls < MaxCalls
    /\ LET r == OpenPoolCached(lvmLv)
       IN  lvmLv' = [r EXCEPT !.op = "open_pool", !.name = "data", !.calls = @ + 1,
                              !.returned = IF r.out.kind = "ok" THEN Append(@, r.out.pool)
                                           ELSE @]
    /\ UNCHANGED <<raidVars, ddfConv, thinDev, diskObj, mdProbe, vinum>>

LvmNext == LvOpen \/ LvOpenPool

SpecLvm == LvmInit /\ [][LvmNext]_vars

\* C15: open() of a thin-pool volume always raises "Opening a thin-pool for
\* reading is not possible, use open_pool() instead" and returns no stream;
\* an open_pool() that returns gives a ThinPool built from the opened metadata
\* volume and the opened pool volume, and all calls of open_pool() on the
\* segment return the same instance, the one the thin volumes are opened on.
C15_ThinPoolOpen ==
    /\ (lvmLv.op = "open" /\ lvmLv.name = "data") =>
         lvmLv.out = Raise("RuntimeError: Opening a thin-pool for reading is not possible, use open_pool() instead")
    /\ (lvmLv.op = "open_pool" /\ lvmLv.out.kind = "ok") =>
         /\ lvmLv.out.pool.metadata_fh = lvmLv.metadata
         /\ lvmLv.out.pool.data_fh = lvmLv.pool
         /\ \A i \in 1..Len(lvmLv.returned) : lvmLv.returned[i] = lvmLv.out.pool
    /\ (lvmLv.op = "open" /\ lvmLv.name \in {"lv-1", "lv-2"} /\ lvmLv.out.kind = "ok") =>
         \A i \in 1..Len(lvmLv.returned) : lvmLv.returned[i] = lvmLv.out.segments[1].pool

\* C15 witness: of three calls on the group, two were calls of open_pool()
\* that returned, and the pool was built once.
C15_Witness ==
    /\ lvmLv.op = "open_pool" /\ lvmLv.out.kind = "ok"
    /\ lvmLv.calls = 3 /\ Len(lvmLv.returned) = 2 /\ lvmLv.created = 1

-----------------------------------------------------------------------------
(* Partition scheme identification, disk/disk.py and disk/schemes.         *)
(* A stream is [size, base, at]: at maps the byte offsets that hold a      *)
(* structure to what a parser finds there, every other offset below size   *)
(* reads as zero bytes; base is where a partition's stream starts in the   *)
(* stream of the disk.  A scheme is [kind |-> "ok", name, partitions, end] *)
(* or the exception raised; end is the position the parse left.  A         *)
(* partition type is the value the scheme passes as vtype, with its Python *)
(* type: <<"int", t>> for an MBR type and for a BSD fstype, <<"bytes", g>>  *)
(* for a GPT type GUID, <<"str", s>> for an APM type.                      *)

BsdSlots     == 4        \* slots of the partition table of a modelled BSD label
BSD_PART_RAW == 2
StructSize   == 512      \* len(mbr_s), len(GPT_HEADER), len(partition_entry), fh.read(512)
MagicLen       == 4      \* len(c_bsd.uint32)
DisklabelLen   == 148    \* len(c_bsd.disklabel)
Disklabel64Len == 200    \* len(c_bsd.disklabel64)
PartitionLen   == 16     \* len(c_bsd.partition)
Partition64Len == 64     \* len(c_bsd.partition64)
EntrySize    == 128      \* len(GPT_PARTITION)
ProtectiveType == 238    \* 0xEE

Sector(fh, pos) ==
    IF (fh.base + pos) \in DOMAIN fh.at THEN fh.at[fh.base + pos] ELSE [kind |-> "zero"]

\* fh.tell() after fh.seek(pos) and a read of n bytes: a seek past the end
\* stays where it went and the read stops at the end of the stream.
Tell(fh, pos, n) == IF pos >= fh.size THEN pos ELSE Min(pos + n, fh.size)

\* Partition(disk, number, offset, size, vtype, ...)
Partition(number, offset, size, type) ==
    [number |-> number, offset |-> offset, size |-> size, type |-> type]

\* The offset of an extended boot record taken from the record before it.
ExtendedOffsetPrev(part_offset, ebr_offset, sector_ofs, sector_size) == part_offset

\* mbr.py 65-69: the offset of the extended boot record of an extended entry.
ExtendedOffset(part_offset, ebr_offset, sector_ofs, sector_size) ==
    IF ebr_offset = None \/ ebr_offset = 0 THEN part_offset
    ELSE ebr_offset + sector_ofs * sector_size

\* MBR._partitions, mbr.py 55-86, from entry num of the table part that was
\* read at offset; acc holds the partitions yielded and the offsets of the
\* extended boot records read so far.  ebr_offset is None until the frame has
\* met an extended entry.  A sector that holds no table reads as entries of
\* type 0.
RECURSIVE MBRPartitions(_, _, _, _, _, _, _, _)
MBRPartitions(fh, part, offset, num_start, ebr_offset, sector_size, num, acc) ==
    IF num >= Len(part) \/ acc.kind = "error" THEN acc
    ELSE
    LET partition   == part[num + 1]
        part_offset == offset + partition.sector_ofs * sector_size
    IN  IF partition.type = 0
        THEN MBRPartitions(fh, part, offset, num_start, ebr_offset, sector_size, num + 1, acc)
        ELSE IF partition.type \in {5, 15, 133}
        THEN LET first == ebr_offset = None \/ ebr_offset = 0      \* not ebr_offset
                 ebr   == IF first THEN part_offset ELSE ebr_offset
                 at    == ExtendedOffset(part_offset, ebr_offset, partition.sector_ofs,
                                         sector_size)
                 e_mbr == Sector(fh, at)
             IN  IF at + StructSize > fh.size
                 THEN [acc EXCEPT !.kind = "error", !.err = "EOFError",
                                  !.ebrs = Append(@, at)]
                 ELSE MBRPartitions(fh, part, offset, num_start, ebr, sector_size, num + 1,
                        MBRPartitions(fh, IF e_mbr.kind = "mbr" THEN e_mbr.part ELSE <<>>,
                                      at, num_start + num, ebr, sector_size, 0,
                                      [acc EXCEPT !.ebrs = Append(@, at)]))
        ELSE MBRPartitions(fh, part, offset, num_start, ebr_offset, sector_size, num + 1,
               [acc EXCEPT !.partitions =
                  Append(@, Partition(num_start + num + 1, part_offset,
                                      partition.sector_size * sector_size,
                                      <<"int", partition.type>>))])

\* MBR.__init__, mbr.py 36-53.
MBR(fh, pos, sector_size) ==
    IF pos + StructSize > fh.size
    THEN [kind |-> "error", err |-> "EOFError", end |-> Tell(fh, pos, StructSize)]
    ELSE LET mbr == Sector(fh, pos)
         IN  IF mbr.kind # "mbr"
             THEN [kind |-> "error", err |-> "Invalid MBR boot signature", end |-> pos + StructSize]
             ELSE IF mbr.vbr
             THEN [kind |-> "error", err |-> "Sector is a filesystem VBR, not an MBR",
                   end |-> pos + StructSize]
             ELSE IF mbr.qnx
             THEN [kind |-> "error", err |-> "Sector is a QNX Boot Sector, not an MBR",
                   end |-> pos + StructSize]
             ELSE LET \* the stream is left behind the last boot record read
                      Left(ebrs) == Tell(fh, IF ebrs = <<>> THEN pos ELSE ebrs[Len(ebrs)],
                                         StructSize)
                      Done(r) == IF r.kind = "error"
                                 THEN [kind |-> "error", err |-> r.err, end |-> Left(r.ebrs)]
                                 ELSE [kind |-> "ok", name |-> "MBR", end |-> Left(r.ebrs),
                                       partitions |-> r.partitions, ebrs |-> r.ebrs]
                  IN  Done(MBRPartitions(fh, mbr.part, pos, 0, None, sector_size, 0,
                                         [kind |-> "ok", err |-> "none", partitions |-> <<>>,
                                          ebrs |-> <<>>]))

\* GPT._partitions, gpt.py 70-115: the entries of the partition array at
\* base_offset in place of the first protective entry of the MBR.  Entry
\* part_num is read at base_offset + part_num * partition_entry_size; a
\* stretch of the stream that holds no entry reads as an entry of zeros.
RECURSIVE GPTPartitions(_, _, _, _, _, _)
GPTPartitions(fh, gpt, mbr_parts, sector_size, seen_gpt, acc) ==
    IF mbr_parts = <<>> THEN [kind |-> "ok", partitions |-> acc]
    ELSE IF Head(mbr_parts).type # <<"int", ProtectiveType>>
    THEN GPTPartitions(fh, gpt, Tail(mbr_parts), sector_size, seen_gpt,
                       Append(acc, Head(mbr_parts)))
    ELSE IF seen_gpt
    THEN GPTPartitions(fh, gpt, Tail(mbr_parts), sector_size, seen_gpt, acc)
    ELSE
    LET base_offset == gpt.lba_partition_array * sector_size
        At(n)       == base_offset + n * gpt.partition_entry_size
        Entry(n)    == IF Sector(fh, At(n)).kind = "gpt_entry" THEN Sector(fh, At(n))
                       ELSE [first_lba |-> 0, last_lba |-> 0, type_guid |-> "zero"]
        nums        == SelectSeq([n \in 1..gpt.partition_table_count |-> n - 1],
                                 LAMBDA n : Entry(n).first_lba # 0)
    IN  IF \E n \in 0..(gpt.partition_table_count - 1) : At(n) + EntrySize > fh.size
        THEN Raise("EOFError")
        ELSE GPTPartitions(fh, gpt, Tail(mbr_parts), sector_size, TRUE,
               acc \o [k \in 1..Len(nums) |->
                         Partition(nums[k] + 1, Entry(nums[k]).first_lba * sector_size,
                                   (Entry(nums[k]).last_lba - Entry(nums[k]).first_lba) * sector_size,
                                   <<"bytes", Entry(nums[k]).type_guid>>)])

\* GPT.__init__, gpt.py 52-68.  The stream is left behind the last read: of
\* the header, or of the last entry of the array that was asked for.
GPT(fh, pos, sector_size) ==
    LET Array(mbr, gpt) ==       \* gpt: the header read
            LET At(n)  == gpt.lba_partition_array * sector_size
                          + n * gpt.partition_entry_size
                count  == gpt.partition_table_count
                unread == {n \in 0..(count - 1) : At(n) + EntrySize > fh.size}
                last   == IF unread = {} THEN count - 1
                          ELSE CHOOSE n \in unread : \A k \in unread : n <= k
                Left   == IF count = 0 THEN At(0) ELSE Tell(fh, At(last), EntrySize)
                Done(ps) == IF ps.kind = "error"
                            THEN [kind |-> "error", err |-> ps.err, end |-> Left]
                            ELSE [kind |-> "ok", name |-> "GPT", partitions |-> ps.partitions,
                                  end |-> Left]
            IN  Done(GPTPartitions(fh, gpt, mbr.partitions, sector_size, FALSE, <<>>))
        Header(mbr, gpt_parts) ==
            IF gpt_parts = <<>>
            THEN [kind |-> "error", end |-> mbr.end,
                  err |-> "Invalid protective/hybrid MBR, could not find 0xEE GPT partition"]
            ELSE LET at  == gpt_parts[1].offset
                     gpt == Sector(fh, at)
                 IN  IF at + StructSize > fh.size
                     THEN [kind |-> "error", err |-> "EOFError", end |-> Tell(fh, at, StructSize)]
                     ELSE IF gpt.kind # "gpt"
                     THEN [kind |-> "error", err |-> "Invalid GPT signature, expected 'EFI PART'",
                           end |-> at + StructSize]
                     ELSE Array(mbr, gpt)
        Protective(mbr) ==
            IF mbr.kind = "error" THEN mbr
            ELSE Header(mbr, SelectSeq(mbr.partitions,
                                       LAMBDA p : p.type = <<"int", ProtectiveType>>))
    IN  Protective(MBR(fh, pos, sector_size))

\* APM.__init__ and APM._partitions, apm.py 39-71.  The map entry read in
\* __init__ is partition 1; entry i > 1 is read where the stream stands,
\* behind entry i - 1, and the record of the first entry carries the fields of
\* the entries that follow it in the stream.
APM(fh, pos, sector_size) ==
    LET first == Sector(fh, pos)
        moved == first.kind = "apm" /\ first.signature = "ER"
        at    == IF moved THEN first.reserved_1 ELSE pos
        apm   == Sector(fh, at)
        EntryAt(i) == at + (i - 1) * StructSize
        Entry(i)   == IF i <= Len(apm.entries) THEN apm.entries[i]
                      ELSE [partition_start |-> 0, partition_size |-> 0, partition_type |-> ""]
        cut   == {i \in 2..apm.partition_count : EntryAt(i) + StructSize > fh.size}
    IN  IF pos + StructSize > fh.size
        THEN [kind |-> "error", err |-> "EOFError", end |-> Tell(fh, pos, StructSize)]
        ELSE IF at + StructSize > fh.size
        THEN [kind |-> "error", err |-> "EOFError", end |-> Tell(fh, at, StructSize)]
        ELSE IF apm.kind # "apm" \/ apm.signature # "PM"
        THEN [kind |-> "error", err |-> "Invalid APM signature, expected 'PM'",
              end |-> at + StructSize]
        ELSE IF cut # {}
        THEN [kind |-> "error", err |-> "EOFError",
              end |-> Tell(fh, EntryAt(CHOOSE i \in cut : \A k \in cut : i <= k), StructSize)]
        ELSE [kind |-> "ok", name |-> "APM",
              end |-> IF apm.partition_count > 1 THEN EntryAt(apm.partition_count) + StructSize
                      ELSE at + StructSize,
              partitions |-> [i \in 1..apm.partition_count |->
                                Partition(i, Entry(i).partition_start * sector_size,
                                          Entry(i).partition_size * sector_size,
                                          <<"str", Entry(i).partition_type>>)]]

\* len(self.disklabel) and the length of an entry of its table.
LabelLen(type) == IF type = 32 THEN DisklabelLen ELSE Disklabel64Len
SlotLen(type)  == IF type = 32 THEN PartitionLen ELSE Partition64Len

\* Entry slot (from 0) of the table behind the label; the stream holds zeros
\* behind the entries of the label.
Slot(label, slot) ==
    IF slot < Len(label.table) THEN label.table[slot + 1]
    ELSE [p_fstype |-> 0, p_offset |-> 0, p_size |-> 0]

\* The loop of BSD._partitions, bsd.py 329-362: i counts the table indices,
\* slot the entries read from the stream so far, each read where the one
\* before it ended.
RECURSIVE BSDPartitions(_, _, _, _, _, _, _, _)
BSDPartitions(fh, label, sector_size, partitions_offset, table_offset, i, slot, acc) ==
    LET at == partitions_offset + slot * SlotLen(label.type)
    IN  IF i >= label.d_npartitions
        THEN [kind |-> "ok", name |-> "BSD", partitions |-> acc, end |-> at]
        ELSE IF i = BSD_PART_RAW
        THEN BSDPartitions(fh, label, sector_size, partitions_offset, table_offset,
                           i + 1, slot, acc)
        ELSE IF at + SlotLen(label.type) > fh.size
        THEN [kind |-> "error", err |-> "EOFError", end |-> Tell(fh, at, SlotLen(label.type))]
        ELSE
        LET partition == Slot(label, slot)
            skip      == IF label.type = 32 THEN partition.p_fstype = 0
                         ELSE (partition.p_offset = 0 /\ partition.p_size # 0)
                              \/ partition.p_fstype = 0
            offset    == IF label.type = 32 THEN partition.p_offset * sector_size - table_offset
                         ELSE partition.p_offset
            size      == IF label.type = 32 THEN partition.p_size * sector_size
                         ELSE partition.p_size
        IN  BSDPartitions(fh, label, sector_size, partitions_offset, table_offset,
                          i + 1, slot + 1,
                          IF skip THEN acc
                          ELSE Append(acc, Partition(i + 1, offset, size,
                                                     <<"int", partition.p_fstype>>)))

\* BSD.__init__ and the head of BSD._partitions, bsd.py 288-327.  The label
\* is looked for sector_size bytes on; fh.read(512) returns what the stream
\* has left, and the magic and the label are parsed from those bytes.
BSD(fh, pos, sector_size) ==
    LET offset == pos + sector_size
        left   == IF offset >= fh.size THEN 0 ELSE Min(StructSize, fh.size - offset)
        read   == Tell(fh, offset, StructSize)
        label  == Sector(fh, offset)
    IN  IF left < MagicLen
        THEN [kind |-> "error", err |-> "EOFError", end |-> read]
        ELSE IF label.kind # "bsd"
        THEN [kind |-> "error", err |-> "Invalid BSD disklabel magic", end |-> read]
        ELSE IF left < LabelLen(label.type)
        THEN [kind |-> "error", err |-> "EOFError", end |-> read]
        ELSE IF label.type = 32 /\ ~label.magic2_ok
        THEN [kind |-> "error", err |-> "Invalid BSD disklabel magic", end |-> read]
        ELSE
        LET partitions_offset == offset + LabelLen(label.type)
            raw               == partitions_offset + BSD_PART_RAW * PartitionLen
        IN  IF label.type = 32 /\ raw + PartitionLen > fh.size
            THEN [kind |-> "error", err |-> "EOFError", end |-> Tell(fh, raw, PartitionLen)]
            ELSE BSDPartitions(fh, label, sector_size, partitions_offset,
                               IF label.type = 32
                               THEN Slot(label, BSD_PART_RAW).p_offset * sector_size
                               ELSE 0,
                               0, 0, <<>>)

\* BSD.TYPES, bsd.py 271-286.
BSDTypes == {<<"int", 165>>, <<"int", 166>>, <<"int", 169>>, <<"int", 108>>,
             <<"bytes", "dragonfly-disklabel32">>, <<"bytes", "dragonfly-disklabel64">>,
             <<"bytes", "freebsd-disklabel">>}

\* self.scheme = None, disk.py 12.
NoScheme == [kind |-> "none"]

\* for scheme in [GPT, MBR, APM, BSD], disk.py 22.
Schemes == <<"GPT", "MBR", "APM", "BSD">>

Parse(scheme, fh, pos, sector_size) ==
    CASE scheme = "GPT" -> GPT(fh, pos, sector_size)
      [] scheme = "MBR" -> MBR(fh, pos, sector_size)
      [] scheme = "APM" -> APM(fh, pos, sector_size)
      [] scheme = "BSD" -> BSD(fh, pos, sector_size)

\* One round of the loop of Disk.__init__, disk.py 22-29, that starts each
\* attempt where the last one stopped.
TryNextNoSeek(d) ==
    LET scheme == Schemes[Len(d.attempts) + 1]
        r      == Parse(scheme, d.fh, d.pos, d.sector_size)
    IN  [d EXCEPT !.attempts = Append(@, [scheme |-> scheme, from |-> d.pos, result |-> r]),
                  !.pos = r.end,
                  !.scheme = IF r.kind = "ok" THEN r ELSE @,
                  !.errors = IF r.kind = "ok" THEN @ ELSE Append(@, r.err)]

\* One round of the loop of Disk.__init__, disk.py 22-29.
TryNext(d) ==
    LET scheme == Schemes[Len(d.attempts) + 1]
        r      == Parse(scheme, d.fh, d.start, d.sector_size)
    IN  [d EXCEPT !.attempts = Append(@, [scheme |-> scheme, from |-> d.start, result |-> r]),
                  !.pos = r.end,
                  !.scheme = IF r.kind = "ok" THEN r ELSE @,
                  !.errors = IF r.kind = "ok" THEN @ ELSE Append(@, r.err)]

\* partition.open(): the stream of the bytes of the partition, which ends
\* where the stream of the disk ends.
PartitionOpen(fh, p) ==
    [size |-> IF p.offset >= fh.size THEN 0 ELSE Min(p.size, fh.size - p.offset),
     base |-> fh.base + p.offset, at |-> fh.at]

\* The block in which a stream over a range of another stream reads, the
\* default buffer size of io.
STREAM_BUFFER_SIZE == 8192

\* Where the stream of the disk stands once BSD has looked for a label in
\* partition.open(): the opened stream reads through the stream of the disk
\* in blocks of STREAM_BUFFER_SIZE bytes, so its first read seeks that stream
\* to the offset of the partition and reads the first block, or the whole
\* partition when it is shorter, and every later read of the label and of
\* its table is served from those bytes.  A partition that ends at or before
\* the sector of the label is not read at all and the stream of the disk
\* stays at pos.
OpenedTell(fh, p, sector_size, pos) ==
    IF p.size <= sector_size THEN pos
    ELSE Tell(fh, p.offset, Min(p.size, STREAM_BUFFER_SIZE))

\* The loop of disk.py 34-41 over the partitions of the main scheme.  The
\* nested BSD replaces self.scheme, and its exception leaves the constructor.
RECURSIVE Nested(_, _, _)
Nested(d, parts, acc) ==
    IF parts = <<>> \/ acc.out.kind = "error" THEN acc
    ELSE IF Head(parts).type \in BSDTypes
    THEN LET bsd == BSD(PartitionOpen(d.fh, Head(parts)), 0, d.sector_size)
             at  == OpenedTell(d.fh, Head(parts), d.sector_size, acc.pos)
         IN  Nested(d, Tail(parts),
                    IF bsd.kind = "error"
                    THEN [acc EXCEPT !.out = Raise(bsd.err), !.pos = at]
                    ELSE [acc EXCEPT !.scheme = bsd, !.partitions = @ \o bsd.partitions,
                                     !.pos = at])
    ELSE Nested(d, Tail(parts), [acc EXCEPT !.partitions = Append(@, Head(parts))])

\* isinstance(self.scheme, MBR) and any([p.type == 0xEE for p in
\* self.partitions]), disk.py 43.
ProtectiveFound(d) ==
    /\ d.scheme.name = "MBR"
    /\ \E i \in 1..Len(d.partitions) : d.partitions[i].type = <<"int", ProtectiveType>>

\* Disk.__init__ after the loop, disk.py 31-44.
Finish(d) ==
    IF d.scheme = NoScheme
    THEN [d EXCEPT !.pc = "done",
                   !.out = [kind |-> "error",
                            err |-> "DiskError: Unable to detect a valid partition scheme",
                            errors |-> d.errors]]
    ELSE LET n == Nested(d, d.scheme.partitions, [d EXCEPT !.out = [kind |-> "ok"]])
         IN  IF n.out.kind = "error" THEN [n EXCEPT !.pc = "done"]
             ELSE IF ProtectiveFound(n)
             THEN [n EXCEPT !.pc = "done",
                            !.out = Raise("DiskError: Found GPT type partition, but MBR scheme detected. Maybe 4K sector size.")]
             ELSE [n EXCEPT !.pc = "done"]

\* Disk(fh, sector_size) about to run with the stream at position start.
NewDisk(fh, start, sector_size) ==
    [pc |-> "try", fh |-> fh, start |-> start, sector_size |-> sector_size, pos |-> start,
     attempts |-> <<>>, errors |-> <<>>, scheme |-> NoScheme, partitions |-> <<>>,
     out |-> Raise("none")]

Trying(d) == d.pc = "try" /\ d.scheme = NoScheme /\ Len(d.attempts) < Len(Schemes)

\* Disk(fh, sector_size) as a whole.
RECURSIVE RunDisk(_)
RunDisk(d) == IF Trying(d) THEN RunDisk(TryNext(d)) ELSE Finish(d)

\* A BSD label whose table slot i (from 0) holds fstypes[i + 1], offset
\* 2 * i + 4 and size i + 1; the RAW slot starts at sector 2.
BsdLabel(type, magic2_ok, d_npartitions, fstypes) ==
    [kind |-> "bsd", type |-> type, magic2_ok |-> magic2_ok, d_npartitions |-> d_npartitions,
     table |-> [k \in 1..BsdSlots |->
                  [p_fstype |-> IF k <= Len(fstypes) THEN fstypes[k] ELSE 0,
                   p_offset |-> IF k = BSD_PART_RAW + 1 THEN 2 ELSE 2 * k + 2,
                   p_size   |-> k]]]

Image(name, size, at) == [name |-> name, size |-> size, base |-> 0, at |-> at]

\* Disk images: a plain MBR, a FAT boot sector, a QNX boot sector, a GPT of
\* 512-byte sectors, one with entries of 256 bytes, one without entries whose
\* array would start at the end of the stream, one whose stream ends inside
\* the array, a GPT of 4096-byte sectors, a hybrid MBR, an Apple partition
\* map behind its driver descriptor, one whose stream ends inside the second
\* map entry, a BSD label inside an MBR partition, an MBR partition of BSD
\* type without a label, one that starts behind the end of the stream, one
\* longer than a block of the opened stream, an
\* MBR with an entry of type 0xEE and an entry of BSD type that holds a label,
\* the same without the label and with the two entries in the other order,
\* BSD labels with an entry whose fstype is one of BSD.TYPES, BSD labels in a
\* stream that ends in the sector of the label, a blank disk, an empty stream.
DiskImages ==
    LET
        Part(type, sector_ofs, sector_size) ==
            [type |-> type, sector_ofs |-> sector_ofs, sector_size |-> sector_size]
        MbrSector(vbr, part) == [kind |-> "mbr", vbr |-> vbr, qnx |-> FALSE, part |-> part]
        GptHeader(partition_table_count, partition_entry_size) ==
            [kind |-> "gpt", lba_partition_array |-> 2,
             partition_table_count |-> partition_table_count,
             partition_entry_size |-> partition_entry_size]
        GptEntry(first_lba, last_lba) ==
            [kind |-> "gpt_entry", first_lba |-> first_lba, last_lba |-> last_lba,
             type_guid |-> "linux"]
        \* entries 0 and 2 of an array at base; entry 1 is unused
        GptArray(base, partition_entry_size) ==
            base :> GptEntry(4, 5) @@ (base + 2 * partition_entry_size) :> GptEntry(6, 9)
        ApmEntry(signature, reserved_1) ==
            [kind |-> "apm", signature |-> signature, reserved_1 |-> reserved_1, partition_count |-> 2,
             entries |-> << [partition_start |-> 1, partition_size |-> 2, partition_type |-> "Apple_partition_map"],
                            [partition_start |-> 3, partition_size |-> 4, partition_type |-> "Apple_HFS"] >>]
    IN
        { Image("mbr", 16384,
                0 :> MbrSector(FALSE, <<Part(131, 1, 2), Part(0, 0, 0), Part(7, 3, 2), Part(0, 0, 0)>>)),
          Image("vbr", 16384, 0 :> MbrSector(TRUE, <<Part(0, 0, 0)>>)),
          Image("qnx", 16384,
                0 :> [kind |-> "mbr", vbr |-> FALSE, qnx |-> TRUE, part |-> <<Part(131, 1, 2)>>]),
          Image("gpt512", 16384,
                0 :> MbrSector(FALSE, <<Part(ProtectiveType, 1, 31)>>)
                @@ 512 :> GptHeader(3, 128) @@ GptArray(1024, 128)),
          Image("gpt256", 16384,
                0 :> MbrSector(FALSE, <<Part(ProtectiveType, 1, 31)>>)
                @@ 512 :> GptHeader(3, 256) @@ GptArray(1024, 256)),
          Image("gpt0", 1024,
                0 :> MbrSector(FALSE, <<Part(ProtectiveType, 1, 1)>>)
                @@ 512 :> GptHeader(0, 128)),
          Image("gptcut", 1408,
                0 :> MbrSector(FALSE, <<Part(ProtectiveType, 1, 1)>>)
                @@ 512 :> GptHeader(4, 128) @@ GptArray(1024, 128)),
          Image("gpt4k", 65536,
                0 :> MbrSector(FALSE, <<Part(ProtectiveType, 1, 15)>>)
                @@ 4096 :> GptHeader(3, 128) @@ GptArray(8192, 128)),
          Image("hybrid", 16384,
                0 :> MbrSector(FALSE, <<Part(131, 4, 2), Part(ProtectiveType, 1, 3),
                                        Part(ProtectiveType, 1, 3)>>)
                @@ 512 :> GptHeader(3, 128) @@ GptArray(1024, 128)),
          Image("apm", 16384, 0 :> ApmEntry("ER", 512) @@ 512 :> ApmEntry("PM", 0)),
          Image("apmcut", 1280, 0 :> ApmEntry("ER", 512) @@ 512 :> ApmEntry("PM", 0)),
          Image("mbr+bsd", 16384,
                0 :> MbrSector(FALSE, <<Part(165, 2, 8), Part(131, 12, 2)>>)
                @@ 1536 :> BsdLabel(32, TRUE, 4, <<7, 0, 0, 1>>)),
          Image("mbr+nobsd", 16384, 0 :> MbrSector(FALSE, <<Part(165, 2, 8)>>)),
          Image("mbr+bsdfar", 2048, 0 :> MbrSector(FALSE, <<Part(165, 8, 8)>>)),
          Image("mbr+bigbsd", 65536,
                0 :> MbrSector(FALSE, <<Part(165, 2, 20)>>)
                @@ 1536 :> BsdLabel(32, TRUE, 4, <<7, 0, 0, 1>>)),
          Image("mbr+ee+bsd", 16384,
                0 :> MbrSector(FALSE, <<Part(ProtectiveType, 1, 1), Part(165, 2, 8)>>)
                @@ 1536 :> BsdLabel(32, TRUE, 4, <<7, 0, 0, 1>>)),
          Image("mbr+ee+nobsd", 16384,
                0 :> MbrSector(FALSE, <<Part(ProtectiveType, 1, 1), Part(165, 2, 8)>>)),
          Image("mbr+bsd+ee", 16384,
                0 :> MbrSector(FALSE, <<Part(165, 2, 8), Part(ProtectiveType, 1, 1)>>)
                @@ 1536 :> BsdLabel(32, TRUE, 4, <<7, 0, 0, 1>>)),
          Image("bsd165", 16384, 512 :> BsdLabel(32, TRUE, 4, <<165, 0, 0, 7>>)
                                 @@ 4096 :> BsdLabel(32, TRUE, 4, <<165, 0, 0, 7>>)),
          Image("bsd108", 16384, 512 :> BsdLabel(64, TRUE, 4, <<108, 7, 0, 0>>)
                                 @@ 4096 :> BsdLabel(64, TRUE, 4, <<108, 7, 0, 0>>)),
          Image("bsd912", 912, 512 :> BsdLabel(32, TRUE, 4, <<7, 7, 0, 7>>)),
          Image("bsd600", 600, 512 :> BsdLabel(32, TRUE, 4, <<7, 7, 0, 7>>)),
          Image("bsd64cut", 800, 512 :> BsdLabel(64, TRUE, 4, <<7, 7, 0, 7>>)),
          Image("blank", 16384, <<>>),
          Image("empty", 0, <<>>) }

\* The caller holds a stream at position start and a sector size; the stream
\* is one of DiskImages, has a standalone BSD label in its second sector, of
\* 512 or of 4096 bytes, or has an MBR whose extended entry starts a chain of
\* three extended boot records.
DiskInit ==
    /\ \E start \in {0, 512}, sector_size \in {512, 4096} :
         \/ \E fh \in DiskImages : diskObj = NewDisk(fh, start, sector_size)
         \/ \E type \in {32, 64}, magic2_ok \in BOOLEAN, n \in 1..BsdSlots,
               fstypes \in [1..BsdSlots -> {0, 7}] :
              LET label == BsdLabel(type, magic2_ok, n, fstypes)
              IN  diskObj = NewDisk(Image("bsd", 16384, 512 :> label @@ 4096 :> label),
                                    start, sector_size)
         \/ \E ext \in {5, 15, 133}, e1 \in 2..3, c2 \in 2..3, c3 \in 4..5 :
              LET Table(part) == [kind |-> "mbr", vbr |-> FALSE, qnx |-> FALSE, part |-> part]
                  Entry(type, sector_ofs) ==
                      [type |-> type, sector_ofs |-> sector_ofs, sector_size |-> 1]
                  first == start + e1 * sector_size
              IN  diskObj = NewDisk(
                      Image("ebr", 65536,
                            start :> Table(<<Entry(131, 1), Entry(ext, e1)>>)
                            @@ first :> Table(<<Entry(131, 1), Entry(ext, c2)>>)
                            @@ (first + c2 * sector_size) :> Table(<<Entry(7, 1), Entry(ext, c3)>>)
                            @@ (first + c3 * sector_size) :> Table(<<Entry(131, 1)>>)),
                      start, sector_size)
    /\ RaidUnused
    /\ ddfConv = Unused /\ thinDev = Unused /\ lvmLv = Unused /\ mdProbe = Unused /\ vinum = Unused

\* fh.seek(start); scheme(fh, sector_size=self.sector_size)
DiskTry ==
    /\ Trying(diskObj)
    /\ diskObj' = TryNext(diskObj)
    /\ UNCHANGED <<raidVars, ddfConv, thinDev, lvmLv, mdProbe, vinum>>

\* The rest of Disk.__init__.
DiskFinish ==
    /\ diskObj.pc = "try" /\ ~Trying(diskObj)
    /\ diskObj' = Finish(diskObj)
    /\ UNCHANGED <<raidVars, ddfConv, thinDev, lvmLv, mdProbe, vinum>>

DiskNext == DiskTry \/ DiskFinish

SpecDisk == DiskInit /\ [][DiskNext]_vars

-----------------------------------------------------------------------------
(* Claims about Disk and the BSD label, checked under SpecDisk.            *)

\* C16: Disk tries GPT, MBR, APM and BSD in this order, each from the
\* position the stream had at entry; every attempt but the last has failed
\* and its error is collected; the constructor goes on with the first scheme
\* in this order that parses, without trying the later ones, and when all
\* four fail it raises the DiskError that lists the four errors.
C16_SchemeOrder ==
    LET d     == diskObj
        order == <<"GPT", "MBR", "APM", "BSD">>
        alone == [i \in 1..4 |-> Parse(order[i], d.fh, d.start, d.sector_size)]
        good  == {i \in 1..4 : alone[i].kind = "ok"}
        n     == Len(d.attempts)
    IN  d.pc \in {"try", "done"} =>
          /\ n <= 4
          /\ \A i \in 1..n :
               /\ d.attempts[i].scheme = order[i]
               /\ d.attempts[i].from = d.start
               /\ d.attempts[i].result = alone[i]
               /\ i < n => d.attempts[i].result.kind = "error"
          /\ d.errors = [i \in 1..Len(d.errors) |-> alone[i].err]
          /\ d.pc = "done" =>
               IF good = {}
               THEN /\ n = 4 /\ Len(d.errors) = 4
                    /\ d.out = [kind |-> "error",
                                err |-> "DiskError: Unable to detect a valid partition scheme",
                                errors |-> d.errors]
               ELSE /\ n = CHOOSE i \in good : \A j \in good : i <= j
                    /\ d.attempts[n].result.kind = "ok"
                    /\ Len(d.errors) = n - 1

\* C16 witness: GPT and MBR failed, APM parsed and BSD was not tried.
C16_Witness ==
    /\ diskObj.pc = "done"
    /\ Len(diskObj.attempts) = 3
    /\ diskObj.attempts[3].result.kind = "ok"
    /\ Len(diskObj.errors) = 2
    /\ diskObj.scheme.name = "APM"

\* C17: when Disk is opened with a sector size of 512, the loop over the
\* schemes ends with the MBR scheme and the MBR has enumerated a partition
\* of type 0xEE, Disk raises the DiskError "Found GPT type partition, but MBR
\* scheme detected. Maybe 4K sector size."; the same stream opened with a
\* sector size of 4096 is identified as GPT and the disk has the partitions
\* of the GPT.
C17_FourKSectorHint ==
    LET d == diskObj
        n == Len(d.attempts)
    IN  (/\ d.pc = "done" /\ d.sector_size = 512
         /\ n = 2 /\ d.attempts[n].scheme = "MBR" /\ d.attempts[n].result.kind = "ok"
         /\ \E i \in 1..Len(d.attempts[n].result.partitions) :
               d.attempts[n].result.partitions[i].type = <<"int", ProtectiveType>>) =>
          /\ d.out = Raise("DiskError: Found GPT type partition, but MBR scheme detected. Maybe 4K sector size.")
          /\ LET r == RunDisk(NewDisk(d.fh, d.start, 4096))
             IN  /\ r.out.kind = "ok"
                 /\ r.scheme.name = "GPT"
                 /\ r.partitions = GPT(d.fh, d.start, 4096).partitions

\* C18: the partitions of a 32-bit BSD label are the table entries i other
\* than the RAW one (index 2) and those of fstype 0, each with number i + 1
\* and with the fstype, the size and the offset, less the offset of the RAW
\* entry, that entry i of the table holds on disk.
C18_BsdEnumeration ==
    LET d     == diskObj
        ss    == d.sector_size
        label == Sector(d.fh, d.start + ss)
        kept  == SelectSeq([i \in 1..label.d_npartitions |-> i - 1],
                           LAMBDA i : i # BSD_PART_RAW /\ label.table[i + 1].p_fstype # 0)
    IN  (/\ d.pc = "done" /\ d.fh.name = "bsd"
         /\ d.scheme.kind = "ok" /\ d.scheme.name = "BSD"
         /\ label.type = 32) =>
          d.partitions =
            [k \in 1..Len(kept) |->
               Partition(kept[k] + 1,
                         label.table[kept[k] + 1].p_offset * ss
                           - label.table[BSD_PART_RAW + 1].p_offset * ss,
                         label.table[kept[k] + 1].p_size * ss,
                         <<"int", label.table[kept[k] + 1].p_fstype>>)]

-----------------------------------------------------------------------------
(* md/md.py: find_super_block.                                             *)

MD_RESERVED_SECTORS == 128
MD_SB_MAGIC == "a92b4efc"
PeekSize    == 12
MaxMajor    == 1

\* fh.seek(pos); fh.read(12) on a BytesIO of fh.len bytes: the three uint32
\* of the header when all 12 bytes are there, the short read otherwise.
Peek(fh, pos) ==
    IF pos < 0 THEN Raise("ValueError: negative seek value")
    ELSE IF pos + PeekSize > fh.len
    THEN [kind |-> "short", len |-> IF pos >= fh.len THEN 0 ELSE fh.len - pos]
    ELSE IF pos \in {s * SECTOR_SIZE : s \in fh.magic_at}
    THEN [kind |-> "peek", header |-> <<MD_SB_MAGIC, fh.major, pos \div SECTOR_SIZE>>]
    ELSE [kind |-> "peek", header |-> <<"00000000", 0, 0>>]

\* possible_offsets, md.py 153-163; size is in sectors.
PossibleOffsets(size) ==
    << (size - (size % MD_RESERVED_SECTORS)) - MD_RESERVED_SECTORS, size - 8 * 2, 0, 8 >>

\* md.py 150-151: size = fh.size if hasattr(fh, "size") else fh.seek(0, io.SEEK_END);
\* size //= SECTOR_SIZE
MdSize(fh) ==
    IF fh.size = "None"
    THEN Raise("TypeError: unsupported operand type(s) for //=: 'NoneType' and 'int'")
    ELSE [kind |-> "ok", size |-> fh.len \div SECTOR_SIZE]

NotFound == [kind |-> "None"]
Found(offset, major, minor) ==
    [kind |-> "found", offset |-> offset, major |-> major, minor |-> minor]

\* One round of the loop of md.py 165-174 on the state p of the call.
ProbeNext(p) ==
    LET offset == Head(p.offsets)
        peek   == Peek(p.fh, offset * SECTOR_SIZE)
        q      == [p EXCEPT !.probed = Append(@, offset), !.offsets = Tail(@)]
    IN  IF peek.kind = "error" THEN [q EXCEPT !.pc = "done", !.out = peek]
        ELSE IF peek.kind = "short" THEN q
        ELSE IF peek.header[1] = MD_SB_MAGIC
        THEN [q EXCEPT !.pc = "done", !.out = Found(offset, peek.header[2], peek.header[3])]
        ELSE q

\* A stream of len bytes with the MD magic at the sectors magic_at; size is
\* its attribute of that name: "absent", "None" or "len".
MdInit ==
    /\ \E len \in {0, 8 * 512 + 4, 9 * 512, 24 * 512, 144 * 512, 300 * 512},
          size \in {"absent", "None", "len"},
          magic_at \in SUBSET {0, 8, 128, 284}, major \in 0..MaxMajor :
         mdProbe = [pc |-> "call",
                    fh |-> [len |-> len, size |-> size, magic_at |-> magic_at, major |-> major],
                    offsets |-> <<>>, probed |-> <<>>, out |-> NotFound]
    /\ RaidUnused
    /\ ddfConv = Unused /\ thinDev = Unused /\ lvmLv = Unused /\ diskObj = Unused /\ vinum = Unused

\* find_super_block up to the loop.
MdCall ==
    /\ mdProbe.pc = "call"
    /\ LET size == MdSize(mdProbe.fh)
       IN  mdProbe' = IF size.kind = "error"
                      THEN [mdProbe EXCEPT !.pc = "done", !.out = size]
                      ELSE [mdProbe EXCEPT !.pc = "loop", !.offsets = PossibleOffsets(size.size)]
    /\ UNCHANGED <<raidVars, ddfConv, thinDev, lvmLv, diskObj, vinum>>

MdProbeNext ==
    /\ mdProbe.pc = "loop" /\ mdProbe.offsets # <<>>
    /\ mdProbe' = ProbeNext(mdProbe)
    /\ UNCHANGED <<raidVars, ddfConv, thinDev, lvmLv, diskObj, vinum>>

\* return None, None, None
MdReturnNone ==
    /\ mdProbe.pc = "loop" /\ mdProbe.offsets = <<>>
    /\ mdProbe' = [mdProbe EXCEPT !.pc = "done", !.out = NotFound]
    /\ UNCHANGED <<raidVars, ddfConv, thinDev, lvmLv, diskObj, vinum>>

MdNext == MdCall \/ MdProbeNext \/ MdReturnNone

SpecMd == MdInit /\ [][MdNext]_vars

\* C19: find_super_block probes, in this order, the 0.90 location, 16
\* sectors before the end, sector 0 and sector 8, and returns the offset,
\* major and minor of the first of them whose 12-byte header starts with the
\* MD magic; when none does, and when the size of the stream is None or the
\* stream is empty, it returns (None, None, None) and does not raise.
C19_FindSuperBlock ==
    LET fh      == mdProbe.fh
        sectors == fh.len \div SECTOR_SIZE
        order   == << (sectors - (sectors % 128)) - 128, sectors - 16, 0, 8 >>
        hit(i)  == /\ order[i] >= 0
                   /\ order[i] * SECTOR_SIZE + 12 <= fh.len
                   /\ order[i] \in fh.magic_at
        hits    == {i \in 1..4 : hit(i)}
        first   == CHOOSE i \in hits : \A j \in hits : i <= j
    IN  mdProbe.pc = "done" =>
          /\ mdProbe.out.kind # "error"
          /\ mdProbe.probed = SubSeq(order, 1, Len(mdProbe.probed))
          /\ IF fh.size = "None" \/ fh.len = 0 \/ hits = {}
             THEN mdProbe.out = NotFound
             ELSE mdProbe.out = Found(order[first], fh.major, order[first])

-----------------------------------------------------------------------------
(* Claims about the data-disk index of _get_stripe_read_info.              *)

\* The call of _get_stripe_read_info returned for a layout that is not one
\* of the DDF ROTATING_* layouts.
InfoReturned ==
    /\ res.op = "info" /\ res.info.err = "none"
    /\ vd.layout \notin {ROTATING_ZERO_RESTART, ROTATING_N_RESTART, ROTATING_N_CONTINUE}

\* C23: for the levels 4, 5 and 6, every layout that is not a DDF ROTATING_*
\* layout and more than max_degraded disks, the data-disk index returned by
\* _get_stripe_read_info is one of 0..raid_disks-1, is not the parity index
\* pd_idx and, for RAID6, is not the Q index qd_idx of the stripe.
C23_DataDiskIndex ==
    (InfoReturned /\ vd.num_disks > MaxDegraded(vd.level)) =>
        /\ res.info.dd_idx \in 0..(vd.num_disks - 1)
        /\ res.info.dd_idx # res.info.pd_idx
        /\ vd.level = RAID6 => res.info.dd_idx # res.info.qd_idx

\* C23 witness: a RAID6 stripe whose P is not the last disk and whose data
\* chunk lies behind P and Q.
C23_Witness ==
    /\ InfoReturned /\ vd.level = RAID6 /\ vd.layout = LEFT_ASYMMETRIC
    /\ vd.num_disks = 4
    /\ res.info.pd_idx = 0 /\ res.info.qd_idx = 1 /\ res.info.dd_idx = 3

\* C24: two logical stripe numbers that differ never get the same pair of
\* data-disk index and stripe * stripe_size, so the data_disks chunks of one
\* row lie on data_disks different disks.
C24_TranslationInjective ==
    InfoReturned =>
        \A o \in 0..MaxInfoOffset :
            LET other == GetStripeReadInfo(stream.level, stream.algorithm, vd.num_disks,
                                           vd.stripe_size, o)
            IN  (o \div vd.stripe_size # res.offset \div vd.stripe_size /\ other.err = "none") =>
                    <<other.dd_idx, other.stripe * vd.stripe_size>>
                        # <<res.info.dd_idx, res.info.stripe * vd.stripe_size>>

\* C24 witness: the last chunk of the second row of a RAID5 set of 4 disks.
C24_Witness ==
    /\ InfoReturned /\ vd.level = RAID5 /\ vd.num_disks = 4
    /\ res.info.stripe = 1
    /\ (res.offset \div vd.stripe_size) % 3 = 2

-----------------------------------------------------------------------------
(* Claims about the multi-zone translation of RAID0Stream.                 *)

\* The strip zone (from 0) that holds a logical offset, by the zone ends of
\* the stream.
ZoneOf(offset) ==
    Cardinality({z \in 1..Len(stream.zones) : stream.zones[z].zone_end <= offset})

\* C22: on a complete RAID0 set two different logical offsets below the
\* volume size are never served from the same (device, physical offset), and
\* an offset in a zone N >= 1 is served by a device of zone N at a device
\* offset at or beyond the dev_start of that zone.
C22_ZoneTranslation ==
    (/\ vd.level = RAID0 /\ Missing = 0 /\ stream.kind = "RAID0Stream"
     /\ res.op = "read") =>
        /\ res.status = "ok" /\ Len(res.data) = res.length
        /\ \A o \in 0..(vd.size - 1) :
             o # res.offset =>
               LET other == StreamRead(stream, vd, o, 1)
               IN  other.status = "ok" => other.data[1] # res.data[1]
        /\ LET n    == ZoneOf(res.offset)
               zone == stream.zones[n + 1]
               dev  == vd.disk_map[res.data[1][1]].disk
           IN  n >= 1 =>
                 /\ Rounded(dev, vd.stripe_size) > zone.dev_start
                 /\ res.data[1][2] - dev.offset >= zone.dev_start

\* The blocks a read covers, and whether the lookup of the read found for
\* each of them what the mapping tree of the device holds.
BlocksRead ==
    FirstBlock..((thinDev.offset + thinDev.length - 1) \div thinDev.img.data_block_size)

LookupsAgree ==
    \A b \in BlocksRead :
        BTreeLookup(thinDev.img.blocks, thinDev.img.data_mapping_root,
                    <<thinDev.device_id, b>>, FALSE) = MappingOf(b)

\* C21: a read over several blocks returns, block by block in ascending
\* order, the sectors of the mapped data block or zeros for an unmapped
\* block; what mapped blocks gave is kept when a later block is unmapped, and
\* the result is as long as the request clipped to the size hint.
C21_MultiBlockRead ==
    (thinDev.op = "read" /\ LookupsAgree) =>
        LET bs   == thinDev.img.data_block_size
            want == IF thinDev.size = None THEN thinDev.length
                    ELSE IF thinDev.size <= thinDev.offset THEN 0
                    ELSE Min(thinDev.length, thinDev.size - thinDev.offset)
            at(i) == thinDev.offset + i - 1
            m(i)  == MappingOf(at(i) \div bs)
        IN  /\ thinDev.out.kind = "ok"
            /\ thinDev.out.data =
                 [i \in 1..want |->
                    IF m(i).kind = "value"
                    THEN <<DataFh, UnpackBlock(FromBytesLE(m(i).value)) * bs + (at(i) % bs)>>
                    ELSE ZeroSector]

\* The <<key, value>> entries of the leaves below a block, following the
\* block numbers the internal nodes store.
RECURSIVE LeafEntries(_, _)
LeafEntries(blocks, block) ==
    LET node == blocks[block + 1]
        idx  == 0..(node.num_entries - 1)
    IN  IF IsInternal(node)
        THEN UNION {LeafEntries(blocks, FromBytesLE(EntryValue(node, i))) : i \in idx}
        ELSE {<<EntryKey(node, i), EntryValue(node, i)>> : i \in idx}

\* C25: with want_high the search selects the smallest key at or above the
\* target and lookup returns the value of that entry, whether or not its key
\* equals the target; a target above every key gives not-found, not an
\* exception.
C25_WantHigh ==
    LET keys   == thinDev.keys
        blocks == thinDev.img.blocks
        top    == TreeLookup(blocks, thinDev.img.data_mapping_root, <<keys[1]>>)
        root   == IF Len(keys) = 1 THEN thinDev.img.data_mapping_root
                  ELSE FromBytesLE(top.value)
        above  == {e \in LeafEntries(blocks, root) : e[1] >= keys[Len(keys)]}
    IN  (/\ thinDev.op = "lookup" /\ thinDev.want_high
         /\ Len(keys) > 1 => top.kind = "value") =>
          thinDev.out =
            IF above = {} THEN [kind |-> "None"]
            ELSE LET e == CHOOSE x \in above : \A y \in above : x[1] <= y[1]
                 IN  [kind |-> "value", value |-> e[2]]

\* C26: BTree._lookup ends on every metadata image: a node that is neither
\* internal nor leaf, or a chain of blocks that comes back to a node, gives
\* an error or not-found, never a loop without end.
C26_LookupTerminates ==
    thinDev.op \in {"lookup", "read"} => thinDev.out # Raise("hang")

\* C30: along a chain of extended partitions the first extended boot record
\* lies at the MBR offset plus its sector_ofs, every further one at the
\* offset of the first plus its sector_ofs * sector_size, not at the record
\* before it, and each logical partition at the offset of the record that
\* lists it plus its sector_ofs * sector_size.
C30_ExtendedChain ==
    LET d     == diskObj
        ss    == d.sector_size
        Ofs(at, n) == Sector(d.fh, at).part[n].sector_ofs * ss
        first == d.start + Ofs(d.start, 2)
        ebr2  == first + Ofs(first, 2)
        ebr3  == first + Ofs(ebr2, 2)
    IN  (d.pc = "done" /\ d.fh.name = "ebr") =>
          /\ d.out.kind = "ok" /\ d.scheme.name = "MBR"
          /\ d.scheme.ebrs = <<first, ebr2, ebr3>>
          /\ [i \in 1..Len(d.partitions) |-> d.partitions[i].offset]
               = <<d.start + Ofs(d.start, 1), first + Ofs(first, 1),
                   ebr2 + Ofs(ebr2, 1), ebr3 + Ofs(ebr3, 1)>>

\* C30 witness: a chain of three records whose third is not where the
\* second record plus its sector_ofs would put it.
C30_Witness ==
    /\ diskObj.pc = "done" /\ diskObj.fh.name = "ebr"
    /\ diskObj.start = 512 /\ diskObj.sector_size = 4096
    /\ Len(diskObj.scheme.ebrs) = 3 /\ Len(diskObj.partitions) = 4
    /\ diskObj.scheme.ebrs[3] # diskObj.scheme.ebrs[2]
                                  + Sector(diskObj.fh, diskObj.scheme.ebrs[2]).part[2].sector_ofs * 4096

-----------------------------------------------------------------------------
(* Vinum: the on-disk configuration text (vinum/config.py) and the merge   *)
(* of the configurations of several disks (vinum/vinum.py).                *)
(*                                                                         *)
(* A bytestring is a sequence of one-character strings; an index of the    *)
(* source is 0-based, so line[idx] of the source is line[idx + 1] here.    *)

\* The byte at idx as a one-byte string, "" outside the line.
get_char(line, idx) == IF idx >= 0 /\ idx < Len(line) THEN line[idx + 1] ELSE ""

\* tokenize with the comment character also ending a token.
RECURSIVE tokenizeCut(_, _, _)
tokenizeCut(line, idx, yielded) ==
    LET whitespace == {" ", "\t"}
        end        == Len(line) + 1
        start == CHOOSE i \in idx..end :
                    /\ get_char(line, i) \notin whitespace
                    /\ \A k \in idx..(i - 1) : get_char(line, k) \in whitespace
        char  == get_char(line, start)
        stop  == CHOOSE j \in start..end :
                    /\ get_char(line, j) \in whitespace \cup {"", "#"}
                    /\ \A k \in start..(j - 1) : get_char(line, k) \notin whitespace \cup {"", "#"}
        token == SubSeq(line, start + 1, stop)
    IN  IF char \in {"", "#"} THEN [tokens |-> yielded, err |-> None]
        ELSE IF char \in {"\"", "'"} THEN [tokens |-> yielded, err |-> start]
        ELSE tokenizeCut(line, stop + 1, IF token # <<>> THEN Append(yielded, token) ELSE yielded)

\* The generator tokenize(line), resumed at idx with the tokens it has
\* yielded so far: the tokens it yields in all, and the index in its
\* TokenizeError, or None when it ends without raising.
\*   start: idx after the inner loop that skips leading whitespace
\*   stop:  idx after the inner loop that collects a token
RECURSIVE tokenize(_, _, _)
tokenize(line, idx, yielded) ==
    LET whitespace   == {" ", "\t"}
        quotes       == {"\"", "'"}
        end_of_list  == {"", "#"}
        end_of_token == whitespace \cup {""}
        end          == Len(line) + 1
        start == CHOOSE i \in idx..end :
                    /\ get_char(line, i) \notin whitespace
                    /\ \A k \in idx..(i - 1) : get_char(line, k) \in whitespace
        char  == get_char(line, start)
        stop  == CHOOSE j \in start..end :
                    /\ get_char(line, j) \in end_of_token
                    /\ \A k \in start..(j - 1) : get_char(line, k) \notin end_of_token
        token == SubSeq(line, start + 1, stop)
    IN  IF char \in end_of_list THEN [tokens |-> yielded, err |-> None]
        ELSE IF char \in quotes THEN [tokens |-> yielded, err |-> start]
        ELSE tokenize(line, stop + 1, IF token # <<>> THEN Append(yielded, token) ELSE yielded)

\* A field that may be None: <<>> is None and <<v>> is the value v.
\* A config function that returns None returns NoRecord.
NoRecord == [cls |-> "None"]

GV_DATA_START == 65536 * 2 + 4608

\* The numeral is the longest prefix of minus signs and digits and the unit
\* the byte after it; int() takes an optional minus sign and digits.
\* The sizes of the model stay below 2^31; the source's integers are unbounded.
_parse_size(size) ==
    LET digits   == <<"0", "1", "2", "3", "4", "5", "6", "7", "8", "9">>
        numerals == {"-"} \cup {digits[d] : d \in 1..10}
        n        == CHOOSE i \in 0..Len(size) :
                       /\ \A k \in 1..i : size[k] \in numerals
                       /\ i = Len(size) \/ size[i + 1] \notin numerals
        numeral  == SubSeq(size, 1, n)
        unit     == IF n < Len(size) THEN size[n + 1] ELSE ""
        negative == numeral # <<>> /\ numeral[1] = "-"
        body     == IF negative THEN Tail(numeral) ELSE numeral
        RECURSIVE int(_)
        int(s)   == IF s = <<>> THEN 0
                    ELSE 10 * int(SubSeq(s, 1, Len(s) - 1))
                         + ((CHOOSE d \in 1..10 : digits[d] = s[Len(s)]) - 1)
        value    == IF negative THEN 0 - int(body) ELSE int(body)
    IN  IF body = <<>> \/ \E k \in 1..Len(body) : body[k] = "-" THEN 0
        ELSE IF unit \in {"b", "B", "s", "S"} THEN value * 512
        ELSE IF unit \in {"k", "K"} THEN value * 1024
        ELSE IF unit \in {"m", "M"} THEN value * 1024 * 1024
        ELSE IF unit \in {"g", "G"} THEN value * 1024 * 1024 * 1024
        ELSE value

\* tokens: the tokens of the line after its type word. loop(i, ...) is the
\* while loop about to look at tokens[i]; a next(tokens) past the last token
\* is StopIteration.
_parse_volume_config(config_time, tokens) ==
    LET VolumeState(value) == IF value = <<"u", "p">> THEN "UP" ELSE "DOWN"
        RECURSIVE loop(_, _, _)
        loop(i, name, state) ==
            IF i > Len(tokens)
            THEN IF name = <<>> THEN NoRecord
                 ELSE [cls |-> "Volume", timestamp |-> config_time, name |-> name[1], state |-> state]
            ELSE IF tokens[i] = <<"s", "t", "a", "t", "e">>
            THEN IF i + 1 > Len(tokens) THEN NoRecord
                 ELSE loop(i + 2, name, <<VolumeState(tokens[i + 1])>>)
            ELSE loop(i + 1, <<tokens[i]>>, state)
    IN  loop(1, <<>>, <<>>)

_parse_plex_config(config_time, tokens) ==
    LET PlexState(value) ==
            CASE value = <<"u", "p">> -> "UP"
              [] value = <<"i", "n", "i", "t", "i", "a", "l", "i", "z", "i", "n", "g">> -> "INITIALIZING"
              [] value = <<"d", "e", "g", "r", "a", "d", "e", "d">> -> "DEGRADED"
              [] value = <<"g", "r", "o", "w", "a", "b", "l", "e">> -> "GROWABLE"
              [] OTHER -> "DOWN"
        PlexOrg(value) ==
            CASE value = <<"c", "o", "n", "c", "a", "t">> -> "CONCAT"
              [] value = <<"s", "t", "r", "i", "p", "e", "d">> -> "STRIPED"
              [] value = <<"r", "a", "i", "d", "5">> -> "RAID5"
              [] OTHER -> "DISORG"
        RECURSIVE loop(_, _)
        loop(i, plex) ==
            LET token == tokens[i]
                value == tokens[i + 1]
            IN  IF i > Len(tokens) THEN plex
                ELSE IF token \notin {<<"n", "a", "m", "e">>, <<"o", "r", "g">>, <<"v", "o", "l">>,
                                      <<"v", "o", "l", "u", "m", "e">>, <<"s", "t", "a", "t", "e">>}
                THEN NoRecord
                ELSE IF i + 1 > Len(tokens) THEN NoRecord
                ELSE IF token = <<"n", "a", "m", "e">> THEN loop(i + 2, [plex EXCEPT !.name = <<value>>])
                ELSE IF token = <<"o", "r", "g">>
                THEN IF PlexOrg(value) \in {"RAID5", "STRIPED"}
                     THEN IF i + 2 > Len(tokens) \/ _parse_size(tokens[i + 2]) <= 0 THEN NoRecord
                          ELSE loop(i + 3, [plex EXCEPT !.org = <<PlexOrg(value)>>,
                                                        !.stripesize = <<_parse_size(tokens[i + 2])>>])
                     ELSE loop(i + 2, [plex EXCEPT !.org = <<PlexOrg(value)>>])
                ELSE IF token = <<"s", "t", "a", "t", "e">>
                THEN loop(i + 2, [plex EXCEPT !.state = <<PlexState(value)>>])
                ELSE loop(i + 2, [plex EXCEPT !.volume = <<value>>])
    IN  loop(1, [cls |-> "Plex", timestamp |-> config_time, name |-> <<>>, org |-> <<>>,
                 stripesize |-> <<>>, volume |-> <<>>, state |-> <<>>])

_parse_sd_config(config_time, tokens) ==
    LET SDState(value) ==
            CASE value = <<"u", "p">> -> "UP"
              [] value = <<"i", "n", "i", "t", "i", "a", "l", "i", "z", "i", "n", "g">> -> "INITIALIZING"
              [] value = <<"d", "e", "g", "r", "a", "d", "e", "d">> -> "DEGRADED"
              [] value = <<"g", "r", "o", "w", "a", "b", "l", "e">> -> "GROWABLE"
              [] OTHER -> "DOWN"
        RECURSIVE loop(_, _)
        loop(i, sd) ==
            LET token == tokens[i]
                value == tokens[i + 1]
                size  == _parse_size(value)
            IN  IF i > Len(tokens) THEN IF sd.drive = <<>> THEN NoRecord ELSE [sd EXCEPT !.drive = sd.drive[1]]
                ELSE IF token \notin {<<"n", "a", "m", "e">>, <<"d", "r", "i", "v", "e">>, <<"l", "e", "n">>,
                                      <<"l", "e", "n", "g", "t", "h">>,
                                      <<"d", "r", "i", "v", "e", "o", "f", "f", "s", "e", "t">>,
                                      <<"p", "l", "e", "x">>,
                                      <<"p", "l", "e", "x", "o", "f", "f", "s", "e", "t">>,
                                      <<"s", "t", "a", "t", "e">>}
                THEN NoRecord
                ELSE IF i + 1 > Len(tokens) THEN NoRecord
                ELSE IF token = <<"n", "a", "m", "e">> THEN loop(i + 2, [sd EXCEPT !.name = <<value>>])
                ELSE IF token = <<"d", "r", "i", "v", "e">> THEN loop(i + 2, [sd EXCEPT !.drive = <<value>>])
                ELSE IF token \in {<<"l", "e", "n">>, <<"l", "e", "n", "g", "t", "h">>}
                THEN loop(i + 2, [sd EXCEPT !.length = <<IF size < 0 THEN -1 ELSE size>>])
                ELSE IF token = <<"d", "r", "i", "v", "e", "o", "f", "f", "s", "e", "t">>
                THEN IF size # 0 /\ size < GV_DATA_START THEN NoRecord
                     ELSE loop(i + 2, [sd EXCEPT !.driveoffset = <<size>>])
                ELSE IF token = <<"p", "l", "e", "x">> THEN loop(i + 2, [sd EXCEPT !.plex = <<value>>])
                ELSE IF token = <<"p", "l", "e", "x", "o", "f", "f", "s", "e", "t">>
                THEN IF size < 0 THEN NoRecord ELSE loop(i + 2, [sd EXCEPT !.plexoffset = <<size>>])
                ELSE loop(i + 2, [sd EXCEPT !.state = <<SDState(value)>>])
    IN  loop(1, [cls |-> "SD", timestamp |-> config_time, drive |-> <<>>, name |-> <<>>, length |-> <<>>,
                 driveoffset |-> <<>>, plex |-> <<>>, plexoffset |-> <<>>, state |-> <<>>])

\* parse_vinum_config with a failed line skipped instead of ending the loop.
parse_vinum_configSkip(config_time, config) ==
    LET RECURSIVE split(_)
        split(s) ==
            IF \A k \in 1..Len(s) : s[k] \notin {"NUL", "\n"} THEN <<s>>
            ELSE LET k == CHOOSE j \in 1..Len(s) :
                              s[j] \in {"NUL", "\n"} /\ \A h \in 1..(j - 1) : s[h] \notin {"NUL", "\n"}
                 IN  <<SubSeq(s, 1, k - 1)>> \o split(SubSeq(s, k + 1, Len(s)))
        lines == split(config)
        RECURSIVE loop(_, _)
        loop(i, config_data) ==
            LET tokens == tokenize(lines[i], 0, <<>>)
                token  == tokens.tokens[1]
                rest   == Tail(tokens.tokens)
                parsed_config ==
                    CASE token = <<"v", "o", "l", "u", "m", "e">> -> _parse_volume_config(config_time, rest)
                      [] token = <<"p", "l", "e", "x">> -> _parse_plex_config(config_time, rest)
                      [] token = <<"s", "d">> -> _parse_sd_config(config_time, rest)
                      [] OTHER -> NoRecord
                config_type ==
                    CASE token = <<"v", "o", "l", "u", "m", "e">> -> "volumes"
                      [] token = <<"p", "l", "e", "x">> -> "plexes"
                      [] token = <<"s", "d">> -> "sds"
            IN  IF i > Len(lines) THEN config_data
                ELSE IF tokens.tokens = <<>> /\ tokens.err = None THEN loop(i + 1, config_data)
                ELSE IF tokens.err # None \/ parsed_config.cls = "None" THEN loop(i + 1, config_data)
                ELSE loop(i + 1, [config_data EXCEPT ![config_type] = Append(@, parsed_config)])
    IN  loop(1, [volumes |-> <<>>, plexes |-> <<>>, sds |-> <<>>])

\* The NUL byte is written "NUL". split is RE_CONFIG_EOL.split and loop(i, _)
\* the for loop at lines[i]. A TokenizeError of the generator reaches the
\* except clause from the first next(tokens, None) or from inside a
\* _parse_*_config function, which exhausts the generator unless it has
\* failed before; a line of an unknown type ends the loop before then.
parse_vinum_config(config_time, config) ==
    LET RECURSIVE split(_)
        split(s) ==
            IF \A k \in 1..Len(s) : s[k] \notin {"NUL", "\n"} THEN <<s>>
            ELSE LET k == CHOOSE j \in 1..Len(s) :
                              s[j] \in {"NUL", "\n"} /\ \A h \in 1..(j - 1) : s[h] \notin {"NUL", "\n"}
                 IN  <<SubSeq(s, 1, k - 1)>> \o split(SubSeq(s, k + 1, Len(s)))
        lines == split(config)
        RECURSIVE loop(_, _)
        loop(i, config_data) ==
            LET tokens == tokenize(lines[i], 0, <<>>)
                token  == tokens.tokens[1]
                rest   == Tail(tokens.tokens)
                parsed_config ==
                    CASE token = <<"v", "o", "l", "u", "m", "e">> -> _parse_volume_config(config_time, rest)
                      [] token = <<"p", "l", "e", "x">> -> _parse_plex_config(config_time, rest)
                      [] token = <<"s", "d">> -> _parse_sd_config(config_time, rest)
                      [] OTHER -> NoRecord
                config_type ==
                    CASE token = <<"v", "o", "l", "u", "m", "e">> -> "volumes"
                      [] token = <<"p", "l", "e", "x">> -> "plexes"
                      [] token = <<"s", "d">> -> "sds"
            IN  IF i > Len(lines) THEN config_data
                ELSE IF tokens.tokens = <<>> /\ tokens.err = None THEN loop(i + 1, config_data)
                ELSE IF tokens.err # None \/ parsed_config.cls = "None" THEN config_data
                ELSE loop(i + 1, [config_data EXCEPT ![config_type] = Append(@, parsed_config)])
    IN  loop(1, [volumes |-> <<>>, plexes |-> <<>>, sds |-> <<>>])

\* A virtual disk is the record of the VirtualDisk fields that
\* VirtualDisk.__init__ (raid/raid.py) sets, with the class as kind and the
\* attributes the subclass adds. A disk_map is the set of its items
\* <<idx, disk>>, the offset 0 of every item left out.
VinumPlexDisk(volume, plex, sds, disk_map) ==
    LET org == IF plex.org = <<>> THEN "None" ELSE plex.org[1]
        sd  == sds[1]
        RECURSIVE sum(_)
        sum(k) == IF k = 0 THEN 0 ELSE sum(k - 1) + sds[k].length[1]
    IN  IF org \notin {"CONCAT", "STRIPED", "RAID5"} THEN Raise("ValueError")
        ELSE IF sd.length = <<>> \/ (org = "CONCAT" /\ \E k \in 1..Len(sds) : sds[k].length = <<>>)
        THEN Raise("TypeError")
        ELSE IF plex.name = <<>> THEN Raise("AttributeError")
        ELSE [kind |-> "VinumPlexDisk", name |-> volume.name, uuid |-> plex.name[1],
              size |-> CASE org = "RAID5" -> (Len(sds) - 1) * sd.length[1]
                         [] org = "STRIPED" -> Len(sds) * sd.length[1]
                         [] OTHER -> sum(Len(sds)),
              level |-> CASE org = "CONCAT" -> LINEAR [] org = "STRIPED" -> RAID0 [] OTHER -> RAID5,
              layout |-> IF org = "RAID5" THEN LEFT_ASYMMETRIC ELSE 0,
              stripe_size |-> IF org = "CONCAT" THEN 0 ELSE plex.stripesize[1],
              num_disks |-> Len(sds), disk_map |-> disk_map,
              volume |-> volume, plex |-> plex, sds |-> sds]

\* plex_map: the sequence of the items <<idx, plex_disk>> in insertion order.
VinumMirrorDisk(volume, plexes, plex_map) ==
    [kind |-> "VinumMirrorDisk", name |-> volume.name, uuid |-> volume.name,
     size |-> plex_map[1][2].size, level |-> RAID1, layout |-> 0, stripe_size |-> 0,
     num_disks |-> Len(plexes), disk_map |-> plex_map, volume |-> volume, plexes |-> plexes]

\* VinumConfiguration.__init__ after the merge loop: the virtual disks it
\* hands to Configuration.__init__, or the exception it raises. A dict is
\* the sequence of its values in insertion order; disks_by_name maps an id
\* to the index in physical_disks of the disk stored under it.
\*   ord:     the order of the bytes that the names of the model use
\*   sorted:  sorted(sds, key=plexoffset), which compares (and raises on
\*            None) when there are two or more sds
virtual_disks(config, disks_by_name) ==
    LET ascii == <<"0", "1", "2", "3", "4", "5", "6", "7", "8", "9", "a", "b", "c", "d", "e", "f", "g",
                   "h", "i", "j", "k", "l", "m", "n", "o", "p", "q", "r", "s", "t", "u", "v", "w", "x",
                   "y", "z">>
        ord(c) == CHOOSE i \in 1..Len(ascii) : ascii[i] = c
        RECURSIVE less(_, _)
        less(a, b) == IF b = <<>> THEN FALSE
                      ELSE IF a = <<>> THEN TRUE
                      ELSE IF a[1] # b[1] THEN ord(a[1]) < ord(b[1])
                      ELSE less(Tail(a), Tail(b))
        known(plex) == plex.volume # <<>> /\ \E k \in 1..Len(config.volumes) : config.volumes[k].name = plex.volume[1]
        usable(plex) == known(plex) /\ plex.state # <<"DOWN">> /\ plex.org # <<"DISORG">>
        plexes_by_name == SelectSeq(config.plexes, usable)
        plexes_of(name) == SelectSeq(plexes_by_name, LAMBDA plex : plex.volume[1] = name)
        plexes_by_volume == [k \in 1..Len(plexes_by_name) |-> plexes_by_name[k].volume[1]]
        first(k) == \A h \in 1..(k - 1) : plexes_by_volume[h] # plexes_by_volume[k]
        volume_ids == [n \in 1..Cardinality({k \in 1..Len(plexes_by_volume) : first(k)}) |->
                        plexes_by_volume[CHOOSE k \in 1..Len(plexes_by_volume) :
                            first(k) /\ Cardinality({h \in 1..k : first(h)}) = n]]
        sds_of(plex) == SelectSeq(config.sds, LAMBDA sd : sd.plex = plex.name)
        unsortable(sds) == Len(sds) >= 2 /\ \E k \in 1..Len(sds) : sds[k].plexoffset = <<>>
        sorted(sds) ==
            LET n == Len(sds)
                p == CHOOSE f \in [1..n -> 1..n] :
                        /\ \A i, j \in 1..n : i # j => f[i] # f[j]
                        /\ \A i, j \in 1..n : i < j =>
                              \/ sds[f[i]].plexoffset[1] < sds[f[j]].plexoffset[1]
                              \/ sds[f[i]].plexoffset[1] = sds[f[j]].plexoffset[1] /\ f[i] < f[j]
            IN  IF n <= 1 THEN sds ELSE [i \in 1..n |-> sds[p[i]]]
        disk_map(plex) ==
            LET sds == sorted(sds_of(plex))
            IN  {<<idx - 1, disks_by_name[sds[idx].drive]>> : idx \in
                    {k \in 1..Len(sds) : /\ sds[k].state \notin {<<"DOWN">>, <<"DEGRADED">>, <<"INITIALIZING">>}
                                         /\ sds[k].drive \in DOMAIN disks_by_name}}
        volume_of(name) == config.volumes[CHOOSE k \in 1..Len(config.volumes) : config.volumes[k].name = name]
        splexes(plexes) ==
            LET n == Len(plexes)
                p == CHOOSE f \in [1..n -> 1..n] :
                        /\ \A i, j \in 1..n : i # j => f[i] # f[j]
                        /\ \A i, j \in 1..n : i < j => less(plexes[f[i]].name[1], plexes[f[j]].name[1])
            IN  [i \in 1..n |-> plexes[p[i]]]
        RECURSIVE plex_map(_, _, _, _)
        plex_map(volume, plexes, idx, items) ==
            LET plex      == plexes[idx + 1]
                plex_disk == VinumPlexDisk(volume, plex, sds_of(plex), disk_map(plex))
            IN  IF idx >= Len(plexes) THEN [kind |-> "ok", items |-> items]
                ELSE IF disk_map(plex) = {} THEN plex_map(volume, plexes, idx + 1, items)
                ELSE IF plex_disk.kind = "error" THEN plex_disk
                ELSE plex_map(volume, plexes, idx + 1, Append(items, <<idx, plex_disk>>))
        RECURSIVE loop(_, _)
        loop(k, disks) ==
            LET volume == volume_of(volume_ids[k])
                plexes == plexes_of(volume_ids[k])
                plex   == plexes[1]
                single == VinumPlexDisk(volume, plex, sds_of(plex), disk_map(plex))
                mirror == plex_map(volume, splexes(plexes), 0, <<>>)
            IN  IF k > Len(volume_ids)
                THEN IF disks = <<>> THEN Raise("ValueError") ELSE [kind |-> "ok", virtual_disks |-> disks]
                ELSE IF Len(plexes) = 1
                THEN IF disk_map(plex) = {} THEN loop(k + 1, disks)
                     ELSE IF single.kind = "error" THEN single
                     ELSE loop(k + 1, Append(disks, single))
                ELSE IF \E h \in 1..Len(plexes) : plexes[h].name = <<>> THEN Raise("TypeError")
                ELSE IF mirror.kind = "error" THEN mirror
                ELSE IF mirror.items = <<>> THEN loop(k + 1, disks)
                ELSE loop(k + 1, Append(disks, VinumMirrorDisk(volume, plexes, mirror.items)))
    IN  IF \E k \in 1..Len(plexes_by_name) : unsortable(sds_of(plexes_by_name[k]))
        THEN Raise("TypeError")
        ELSE loop(1, <<>>)

MaxLineLen    == 4   \* bytes of a line given to tokenize
MaxLines      == 3   \* lines of a config given to parse_vinum_config
MaxVinumDisks == 2   \* disks given to VinumConfiguration
MaxConfigTime == 2   \* distinct config times of the disks

\* One of three calls: tokenize on a line of up to MaxLineLen bytes;
\* parse_vinum_config on up to MaxLines lines joined by newline or NUL
\* bytes (lines and seps are kept beside the config they make); or
\* VinumConfiguration on up to MaxVinumDisks physical disks, each with the
\* fields VinumPhysicalDisk.__init__ sets: active from the header magic, id
\* from the label name, config_time, and config, one of four texts.
\*   join(sep, parts): parts[1] sep[1] parts[2] sep[2] ...
VinumInit ==
    LET RECURSIVE join(_, _)
        join(sep, parts) ==
            IF parts = <<>> THEN <<>>
            ELSE IF Len(parts) = 1 THEN parts[1]
            ELSE parts[1] \o <<sep[1]>> \o join(Tail(sep), Tail(parts))
        sp == [k \in 1..16 |-> " "]
        nl == [k \in 1..16 |-> "\n"]
        volume == <<"v", "o", "l", "u", "m", "e">>
        plex   == <<"p", "l", "e", "x">>
        sd     == <<"s", "d">>
        name   == <<"n", "a", "m", "e">>
        drive  == <<"d", "r", "i", "v", "e">>
        org    == <<"o", "r", "g">>
        vol    == <<"v", "o", "l">>
        len    == <<"l", "e", "n">>
        state  == <<"s", "t", "a", "t", "e">>
        up     == <<"u", "p">>
        plexoffset == <<"p", "l", "e", "x", "o", "f", "f", "s", "e", "t">>
        v0 == <<"v", "0">>
        v1 == <<"v", "1">>
        p0 == <<"p", "0">>
        p1 == <<"p", "1">>
        s0 == <<"s", "0">>
        s1 == <<"s", "1">>
        d0 == <<"d", "0">>
        d1 == <<"d", "1">>
        ConfigLines ==
            { <<>>,
              <<"#", "x">>,
              join(sp, <<volume, v1, <<"#">>, v0>>),
              join(sp, <<plex, name, p0, org, <<"c", "o", "n", "c", "a", "t">>, vol, v0>>),
              join(sp, <<sd, name, s0, drive, d0, plex, p0, len, <<"2", "s">>, plexoffset, <<"0">>>>),
              <<"f", "o", "o">>,
              join(sp, <<volume, <<"'", "v", "0">>>>),
              join(sp, <<sd, name, s1>>) }
        Concat == join(nl, <<
            join(sp, <<volume, v0>>),
            join(sp, <<plex, name, p0, org, <<"c", "o", "n", "c", "a", "t">>, vol, v0>>),
            join(sp, <<sd, name, s0, drive, d0, plex, p0, len, <<"2", "s">>, plexoffset, <<"0">>>>),
            join(sp, <<sd, name, s1, drive, d1, plex, p0, len, <<"1", "k">>, plexoffset, <<"2", "s">>>>) >>)
        Mirror == join(nl, <<
            join(sp, <<volume, v0, state, up>>),
            join(sp, <<plex, name, p1, org, <<"s", "t", "r", "i", "p", "e", "d">>, <<"1", "s">>, vol, v0, state, up>>),
            join(sp, <<plex, name, p0, org, <<"c", "o", "n", "c", "a", "t">>, vol, v0, state, up>>),
            join(sp, <<sd, name, s0, drive, d0, plex, p0, len, <<"2", "s">>, plexoffset, <<"0">>, state, up>>),
            join(sp, <<sd, name, s1, drive, d1, plex, p1, len, <<"2", "s">>, plexoffset, <<"0">>, state, up>>) >>)
        Cut == join(nl, <<
            join(sp, <<volume, v1>>),
            <<"f", "o", "o">>,
            join(sp, <<plex, name, p0, org, <<"r", "a", "i", "d", "5">>, <<"1", "s">>, vol, v1>>) >>)
        Nameless == join(nl, <<
            join(sp, <<volume, v0>>),
            join(sp, <<plex, org, <<"r", "a", "i", "d", "5">>, <<"1", "s">>, vol, v0>>),
            join(sp, <<sd, drive, d0, len, <<"1", "k">>>>) >>)
    IN  /\ \/ \E n \in 0..MaxLineLen : \E line \in [1..n -> {"a", "#", "'", "\"", " ", "\t"}] :
                vinum = [op |-> "tokenize", pc |-> "call", line |-> line, out |-> NoRecord]
           \/ \E n \in 0..MaxLines : \E lines \in [1..n -> ConfigLines], seps \in [1..(n - 1) -> {"\n", "NUL"}] :
                vinum = [op |-> "parse_vinum_config", pc |-> "call", lines |-> lines, seps |-> seps,
                         config_time |-> 1, config |-> join(seps, lines), out |-> NoRecord]
           \/ \E n \in 0..MaxVinumDisks :
              \E active \in [1..n -> BOOLEAN], config_time \in [1..n -> 1..MaxConfigTime],
                 config \in [1..n -> {Concat, Mirror, Cut, Nameless}] :
                vinum = [op |-> "VinumConfiguration", pc |-> "merge",
                         physical_disks |-> [i \in 1..n |->
                             [id |-> <<"d", <<"0", "1", "2", "3">>[i]>>, active |-> active[i],
                              config_time |-> config_time[i], config |-> config[i]]],
                         done |-> 0, config |-> [volumes |-> <<>>, plexes |-> <<>>, sds |-> <<>>],
                         disks_by_name |-> <<>>, out |-> NoRecord]
       /\ RaidUnused
       /\ ddfConv = Unused /\ thinDev = Unused /\ lvmLv = Unused /\ diskObj = Unused /\ mdProbe = Unused

VinumTokenize ==
    /\ vinum.op = "tokenize" /\ vinum.pc = "call"
    /\ vinum' = [vinum EXCEPT !.pc = "done", !.out = tokenize(vinum.line, 0, <<>>)]
    /\ UNCHANGED <<raidVars, ddfConv, thinDev, lvmLv, diskObj, mdProbe>>

VinumParse ==
    /\ vinum.op = "parse_vinum_config" /\ vinum.pc = "call"
    /\ vinum' = [vinum EXCEPT !.pc = "done", !.out = parse_vinum_config(vinum.config_time, vinum.config)]
    /\ UNCHANGED <<raidVars, ddfConv, thinDev, lvmLv, diskObj, mdProbe>>

\* VinumMerge keeping the older of two records of a name.
VinumMergeOldest ==
    /\ vinum.op = "VinumConfiguration" /\ vinum.pc = "merge" /\ vinum.done < Len(vinum.physical_disks)
    /\ LET disk        == vinum.physical_disks[vinum.done + 1]
           config_data == parse_vinum_config(disk.config_time, disk.config)
           put(cur_config, new_item) ==
               IF \E k \in 1..Len(cur_config) : cur_config[k].name = new_item.name
               THEN LET k == CHOOSE h \in 1..Len(cur_config) : cur_config[h].name = new_item.name
                    IN  IF new_item.timestamp < cur_config[k].timestamp
                        THEN [cur_config EXCEPT ![k] = new_item]
                        ELSE cur_config
               ELSE Append(cur_config, new_item)
           RECURSIVE merged(_, _)
           merged(cur_config, new_items) ==
               IF new_items = <<>> THEN cur_config
               ELSE merged(put(cur_config, new_items[1]), Tail(new_items))
       IN  vinum' = IF ~disk.active THEN [vinum EXCEPT !.done = @ + 1]
                    ELSE [vinum EXCEPT
                            !.done = @ + 1,
                            !.disks_by_name = [id \in DOMAIN @ \cup {disk.id} |->
                                                  IF id = disk.id THEN vinum.done + 1 ELSE @[id]],
                            !.config = [config_type \in {"volumes", "plexes", "sds"} |->
                                           merged(@[config_type], config_data[config_type])]]
    /\ UNCHANGED <<raidVars, ddfConv, thinDev, lvmLv, diskObj, mdProbe>>

\* One turn of the loop over physical_disks in VinumConfiguration.__init__,
\* vinum.done disks done. A dict is the sequence of its values in insertion
\* order; disks_by_name maps an id to the index in physical_disks of the
\* disk stored under it.
VinumMerge ==
    /\ vinum.op = "VinumConfiguration" /\ vinum.pc = "merge" /\ vinum.done < Len(vinum.physical_disks)
    /\ LET disk        == vinum.physical_disks[vinum.done + 1]
           config_data == parse_vinum_config(disk.config_time, disk.config)
           put(cur_config, new_item) ==
               IF \E k \in 1..Len(cur_config) : cur_config[k].name = new_item.name
               THEN LET k == CHOOSE h \in 1..Len(cur_config) : cur_config[h].name = new_item.name
                    IN  IF new_item.timestamp > cur_config[k].timestamp
                        THEN [cur_config EXCEPT ![k] = new_item]
                        ELSE cur_config
               ELSE Append(cur_config, new_item)
           RECURSIVE merged(_, _)
           merged(cur_config, new_items) ==
               IF new_items = <<>> THEN cur_config
               ELSE merged(put(cur_config, new_items[1]), Tail(new_items))
       IN  vinum' = IF ~disk.active THEN [vinum EXCEPT !.done = @ + 1]
                    ELSE [vinum EXCEPT
                            !.done = @ + 1,
                            !.disks_by_name = [id \in DOMAIN @ \cup {disk.id} |->
                                                  IF id = disk.id THEN vinum.done + 1 ELSE @[id]],
                            !.config = [config_type \in {"volumes", "plexes", "sds"} |->
                                           merged(@[config_type], config_data[config_type])]]
    /\ UNCHANGED <<raidVars, ddfConv, thinDev, lvmLv, diskObj, mdProbe>>

\* The rest of VinumConfiguration.__init__, after the loop.
VinumBuild ==
    /\ vinum.op = "VinumConfiguration" /\ vinum.pc = "merge" /\ vinum.done = Len(vinum.physical_disks)
    /\ vinum' = [vinum EXCEPT !.pc = "done", !.out = virtual_disks(vinum.config, vinum.disks_by_name)]
    /\ UNCHANGED <<raidVars, ddfConv, thinDev, lvmLv, diskObj, mdProbe>>

VinumNext == VinumTokenize \/ VinumParse \/ VinumMerge \/ VinumBuild

SpecVinum == VinumInit /\ [][VinumNext]_vars

-----------------------------------------------------------------------------
(* Claims about vinum.                                                     *)

\* C29: tokenize yields the maximal runs of bytes other than space and tab,
\* in order, up to the first run that starts with '#' or with a quote; a
\* '#' or a quote further on in a run is part of the token; the generator
\* raises TokenizeError with the index of the quote when that run starts
\* with a quote and ends without raising otherwise.
C29_Tokenize ==
    (vinum.op = "tokenize" /\ vinum.pc = "done") =>
        LET line    == vinum.line
            blank   == {" ", "\t"}
            starts  == {i \in 1..Len(line) : line[i] \notin blank /\ (i = 1 \/ line[i - 1] \in blank)}
            last(i) == CHOOSE j \in i..Len(line) :
                          /\ \A k \in i..j : line[k] \notin blank
                          /\ j = Len(line) \/ line[j + 1] \in blank
            enders  == {i \in starts : line[i] \in {"#", "'", "\""}}
            ender   == CHOOSE i \in enders : \A j \in enders : i <= j
            kept    == IF enders = {} THEN starts ELSE {i \in starts : i < ender}
            nth(n)  == CHOOSE i \in kept : Cardinality({j \in kept : j <= i}) = n
        IN  /\ Len(vinum.out.tokens) = Cardinality(kept)
            /\ \A n \in 1..Len(vinum.out.tokens) : vinum.out.tokens[n] = SubSeq(line, nth(n), last(nth(n)))
            /\ vinum.out.err = IF enders # {} /\ line[ender] # "#" THEN ender - 1 ELSE None

\* A token with a '#' or a quote inside was yielded and a later quoted token
\* raised.
C29_Witness ==
    /\ vinum.op = "tokenize" /\ vinum.pc = "done"
    /\ vinum.out.err # None
    /\ \E n \in 1..Len(vinum.out.tokens) : \E k \in 2..Len(vinum.out.tokens[n]) :
          vinum.out.tokens[n][k] \in {"#", "'", "\""}

\* What one line of a config is to parse_vinum_config: the record of a
\* valid volume, plex or sd line, [cls |-> "skip"] for a line without
\* tokens, [cls |-> "bad"] for a line that ends the parsing.
LineRecord(config_time, line) ==
    LET tokens == tokenize(line, 0, <<>>)
        parsed == CASE tokens.tokens[1] = <<"v", "o", "l", "u", "m", "e">> ->
                         _parse_volume_config(config_time, Tail(tokens.tokens))
                    [] tokens.tokens[1] = <<"p", "l", "e", "x">> ->
                         _parse_plex_config(config_time, Tail(tokens.tokens))
                    [] tokens.tokens[1] = <<"s", "d">> ->
                         _parse_sd_config(config_time, Tail(tokens.tokens))
                    [] OTHER -> NoRecord
    IN  IF tokens.err # None THEN [cls |-> "bad"]
        ELSE IF tokens.tokens = <<>> THEN [cls |-> "skip"]
        ELSE IF parsed = NoRecord THEN [cls |-> "bad"]
        ELSE parsed

\* C28: the result of parse_vinum_config holds, per type and in order, the
\* records of the valid lines before the first line that is of an unknown
\* type, does not tokenize or does not parse, and nothing of a later line;
\* lines without tokens are passed over.
C28_ParseUpToFirstBadLine ==
    (vinum.op = "parse_vinum_config" /\ vinum.pc = "done") =>
        LET records == [i \in 1..Len(vinum.lines) |-> LineRecord(vinum.config_time, vinum.lines[i])]
            bad     == {i \in 1..Len(records) : records[i].cls = "bad"}
            before  == IF bad = {} THEN records
                       ELSE SubSeq(records, 1, (CHOOSE i \in bad : \A j \in bad : i <= j) - 1)
        IN  /\ vinum.out.volumes = SelectSeq(before, LAMBDA r : r.cls = "Volume")
            /\ vinum.out.plexes = SelectSeq(before, LAMBDA r : r.cls = "Plex")
            /\ vinum.out.sds = SelectSeq(before, LAMBDA r : r.cls = "SD")

\* A valid line, then a line that ends the parsing, then a valid line of
\* another type.
C28_Witness ==
    /\ vinum.op = "parse_vinum_config" /\ vinum.pc = "done"
    /\ Len(vinum.lines) = 3
    /\ LineRecord(vinum.config_time, vinum.lines[1]).cls = "Volume"
    /\ LineRecord(vinum.config_time, vinum.lines[2]).cls = "bad"
    /\ LineRecord(vinum.config_time, vinum.lines[3]).cls = "SD"
    /\ Len(vinum.out.volumes) = 1 /\ vinum.out.sds = <<>>

\* The records of each type that parse_vinum_config reads from the active
\* disks.
ActiveRecords ==
    LET read == [i \in 1..Len(vinum.physical_disks) |->
                    IF vinum.physical_disks[i].active
                    THEN parse_vinum_config(vinum.physical_disks[i].config_time, vinum.physical_disks[i].config)
                    ELSE [volumes |-> <<>>, plexes |-> <<>>, sds |-> <<>>]]
    IN  [config_type \in {"volumes", "plexes", "sds"} |->
            UNION {{read[i][config_type][k] : k \in 1..Len(read[i][config_type])} : i \in 1..Len(read)}]

\* C27: once the loop over the disks is over, the config holds per type one
\* record for each name read from an active disk and no other record; the
\* record was read from an active disk and no record of its name read from
\* an active disk has a later timestamp.
C27_NewestRecordPerName ==
    (vinum.op = "VinumConfiguration" /\ vinum.done = Len(vinum.physical_disks)) =>
        LET active == ActiveRecords
        IN  \A config_type \in {"volumes", "plexes", "sds"} :
                LET kept == vinum.config[config_type]
                    read == active[config_type]
                IN  /\ \A k \in 1..Len(kept) :
                          /\ kept[k] \in read
                          /\ \A r \in read : r.name = kept[k].name => r.timestamp <= kept[k].timestamp
                          /\ \A h \in 1..Len(kept) : kept[h].name = kept[k].name => h = k
                    /\ \A r \in read : \E k \in 1..Len(kept) : kept[k].name = r.name

\* Two active disks with different configs, the first with the later
\* config time: records of both are kept, the volume of the first.
C27_Witness ==
    /\ vinum.op = "VinumConfiguration" /\ vinum.pc = "done"
    /\ Len(vinum.physical_disks) = 2
    /\ \A i \in 1..2 : vinum.physical_disks[i].active
    /\ vinum.physical_disks[1].config_time > vinum.physical_disks[2].config_time
    /\ \E k \in 1..Len(vinum.config.volumes) :
          /\ vinum.config.volumes[k].timestamp = vinum.physical_disks[1].config_time
          /\ \E r \in ActiveRecords.volumes :
                r.name = vinum.config.volumes[k].name /\ r.timestamp < vinum.config.volumes[k].timestamp
    /\ \E k \in 1..Len(vinum.config.sds) :
          vinum.config.sds[k].timestamp = vinum.physical_disks[2].config_time

=============================================================================
